---- MODULE Spec2Model ----
(***************************************************************************)
(* Model of the template version manager (templateController.js), the chat *)
(* session manager (chatController.js) and the storage schema (migrate.js) *)
(* of tiny-magic-backend.                                                  *)
(*                                                                         *)
(* Spec      : template handlers, one request at a time (each handler is   *)
(*             one atomic step: BEGIN .. COMMIT/ROLLBACK).                 *)
(* ChatSpec  : chat handlers, one request at a time.                       *)
(* ConcSpec  : template handlers of two concurrent requests, interleaved   *)
(*             statement by statement under PostgreSQL READ COMMITTED.     *)
(* ReadSpec, PromptSpec, ChatReadSpec, ChatDeleteSpec, ValidationSpec :    *)
(*             subsets of the handlers, one request at a time.             *)
(* ConnSpec  : the connection and transaction skeleton of one request.     *)
(* CountsSpec: the queries of getChatCounts between committed chat writes. *)
(* ChatConcSpec : two concurrent updateConversation requests, interleaved  *)
(*             statement by statement.                                     *)
(***************************************************************************)
EXTENDS Integers, Sequences, FiniteSets, TLC

VARIABLES
    prompt_templates,   \* committed rows of table prompt_templates
    tplSeq,             \* next value of the SERIAL sequence of prompt_templates.id
    res,                \* the response of the last sequential request
    upsertRun,          \* history: per pair, length of the run of upserts since the pair was empty
    lastAssigned,       \* history: per pair, the version assigned by the last row-creating request
    deletedSince,       \* history: per pair, a delete removed rows since the last row-creating request
    lastWrite,          \* history: the write request just committed (none after a refused one), and its repetitions
    chat,               \* committed rows of table chat
    chatSeq,            \* next value of the SERIAL sequence of chat.id
    now,                \* the storage clock (CURRENT_TIMESTAMP)
    chatRes,            \* the response of the last chat request
    lifecycle,          \* history: per user, how far the create / complete scenario has run
    pc,                 \* ConcSpec: per request, the statement it is about to execute
    req,                \* ConcSpec: per request, its parameters and local variables
    tx,                 \* ConcSpec: per request, the uncommitted effects of its transaction
    resp,               \* ConcSpec: the response sent last
    conn,               \* ConnSpec: the request in progress, its connection and its transaction
    chatTx              \* CountsSpec, ChatConcSpec: per chat request, its position and its transaction

tplVars  == <<prompt_templates, tplSeq, res, upsertRun, lastAssigned, deletedSince, lastWrite>>
chatVars == <<chat, chatSeq, now, chatRes, lifecycle>>
concVars == <<pc, req, tx, resp, conn, chatTx>>
vars     == <<prompt_templates, tplSeq, res, upsertRun, lastAssigned, deletedSince, lastWrite,
              chat, chatSeq, now, chatRes, lifecycle, pc, req, tx, resp, conn, chatTx>>

(***************************************************************************)
(* Bounds and input domains                                                *)
(***************************************************************************)
MaxInserts == 3         \* cap on prompt_templates_id_seq: INSERTs per behaviour
MaxTime    == 3         \* cap on the storage clock: chat write requests per behaviour
MaxConcInserts == 2     \* ConcSpec: cap on prompt_templates_id_seq
MaxConcUpdates == 2     \* ChatConcSpec: updateConversation requests after the last tick of MaxTime

Users         == {"u1", "u2"}
SortedUsers   == <<"u1", "u2">>                \* ORDER BY username
Contents      == {"c1"}

\* the (username, templateType) of the well-formed requests
PairInputs == {<<"u1", "conceptMentor">>, <<"u2", "defaultTemplateValues">>}
\* malformed requests: "" is a missing field, "bogus" is not a template type
BadPairInputs == {<<"", "conceptMentor">>, <<"u1", "">>, <<"u1", "bogus">>}
VersionInputs == 1 .. MaxInserts
\* deleteTemplate: <<version, deleteAll>>, version 0 is a missing field
DeleteModes == {<<0, FALSE>>, <<0, TRUE>>} \cup {<<v, FALSE>> : v \in VersionInputs}
                \cup {<<1, TRUE>>}

\* getTemplate: <<version, includeHistory>>, version 0 is a missing field
GetModes == {<<0, FALSE>>, <<0, TRUE>>, <<1, FALSE>>, <<2, TRUE>>}

validTypes_any == {"conceptMentor", "assessmentPrompt", "defaultTemplateValues", "bogus"}

validTypes == {"conceptMentor", "assessmentPrompt", "defaultTemplateValues"}

\* content of src/data/<templateType>.txt
DefaultContent(t) == "default"

\* a response; reqVersion and reqAll (history) are the version and the deleteAll or
\* includeHistory field of the request
NoRes == [op |-> "none", status |-> 0, username |-> "", templateType |-> "",
          version |-> 0, count |-> 0, failed |-> 0, content |-> "",
          reqVersion |-> 0, reqAll |-> FALSE,
          totalUsers |-> 0, succeeded |-> {}, failedOwner |-> "",
          templateSource |-> "", variablesSource |-> "", dbError |-> "none",
          storageUsed |-> FALSE]

Pairs == Users \X validTypes

(***************************************************************************)
(* Table prompt_templates and its statements                               *)
(***************************************************************************)
TemplateRow(id, u, t, c, v, a) ==
    [id |-> id, username |-> u, template_type |-> t, content |-> c,
     version |-> v, is_active |-> a]

OfPair(T, u, t) == {r \in T : r.username = u /\ r.template_type = t}

\* CREATE UNIQUE INDEX unique_active_template ON prompt_templates(username, template_type)
\* WHERE is_active = TRUE : two distinct rows collide in the index
unique_active_template_absent(r1, r2) == FALSE

unique_active_template(r1, r2) ==
    /\ r1.is_active /\ r2.is_active
    /\ r1.username = r2.username
    /\ r1.template_type = r2.template_type

IndexViolated(T) ==
    \E r1, r2 \in T : r1.id # r2.id /\ unique_active_template(r1, r2)

SetMax(S) == IF S = {} THEN 0 ELSE CHOOSE m \in S : \A x \in S : x <= m

\* SELECT COALESCE(MAX(version), 0) + 1 ... WHERE username = $1 AND template_type = $2
NextVersion_coalesce1(T, u, t) ==
    (IF OfPair(T, u, t) = {} THEN 1 ELSE SetMax({r.version : r \in OfPair(T, u, t)})) + 1

NextVersion_activeOnly(T, u, t) ==
    SetMax({r.version : r \in {x \in OfPair(T, u, t) : x.is_active}}) + 1

NextVersion(T, u, t) == SetMax({r.version : r \in OfPair(T, u, t)}) + 1

\* the WHERE clauses of the statements on prompt_templates, as a row predicate
Matches(r, u, t, w) ==
    /\ r.username = u
    /\ r.template_type = t
    /\ CASE w.cond = "all"           -> TRUE
         [] w.cond = "active"        -> r.is_active
         [] w.cond = "inactive"      -> ~r.is_active
         [] w.cond = "version"       -> r.version = w.v
         [] w.cond = "inactiveBelow" -> ~r.is_active /\ r.version < w.v

Where(T, u, t, w) == {r \in T : Matches(r, u, t, w)}

WAll              == [cond |-> "all", v |-> 0]
WActive           == [cond |-> "active", v |-> 0]
WInactive         == [cond |-> "inactive", v |-> 0]
WVersion(v)       == [cond |-> "version", v |-> v]
WInactiveBelow(v) == [cond |-> "inactiveBelow", v |-> v]

\* UPDATE prompt_templates SET is_active = a WHERE <w>
SetActive(T, u, t, w, a) ==
    {IF Matches(r, u, t, w) THEN [r EXCEPT !.is_active = a] ELSE r : r \in T}

\* DELETE FROM prompt_templates WHERE <w>
DeleteWhere(T, u, t, w) == T \ Where(T, u, t, w)

\* DELETE ... WHERE username = $1 AND template_type = $2 AND is_active = FALSE
DeleteInactive(T, u, t) == DeleteWhere(T, u, t, WInactive)

\* UPDATE ... SET is_active = FALSE WHERE username = $1 AND template_type = $2 AND is_active = TRUE
DeactivateActive(T, u, t) == SetActive(T, u, t, WActive, FALSE)

\* UPDATE ... SET is_active = FALSE WHERE username = $1 AND template_type = $2
DeactivateAll(T, u, t) == SetActive(T, u, t, WAll, FALSE)

\* DELETE ... WHERE ... AND is_active = FALSE AND version < $3
DeleteInactiveBelow(T, u, t, v) == DeleteWhere(T, u, t, WInactiveBelow(v))

\* UPDATE ... SET is_active = TRUE WHERE username = $1 AND template_type = $2 AND version = $3
ActivateVersion_none(T, u, t, v) == T

ActivateVersion(T, u, t, v) == SetActive(T, u, t, WVersion(v), TRUE)

\* INSERT INTO prompt_templates (...) VALUES ($1, $2, $3, $4, TRUE, NOW(), NOW())
InsertTemplate(T, id, u, t, c, v) == T \cup {TemplateRow(id, u, t, c, v, TRUE)}

\* the WHERE clause deleteTemplate builds from version and deleteAll
DeleteClause_versionIgnored(version, deleteAll) ==
    IF deleteAll THEN WAll ELSE WActive

DeleteClause(version, deleteAll) ==
    IF deleteAll THEN WAll
    ELSE IF version # 0 THEN WVersion(version)
    ELSE WActive

(***************************************************************************)
(* Template handlers, one request at a time.  Each transaction body        *)
(* returns [ok, rows, version, count]; ok = FALSE is a 23505 raised by the  *)
(* unique index, after which the handler rolls back.                       *)
(***************************************************************************)
TxResult(ok, rows, v, n) == [ok |-> ok, rows |-> rows, version |-> v, count |-> n]

\* updateTemplate, BEGIN .. COMMIT
UpsertTx(T, id, u, t, c) ==
    LET v  == NextVersion(T, u, t)
        T1 == DeleteInactive(T, u, t)
        T2 == DeactivateActive(T1, u, t)
        T3 == InsertTemplate(T2, id, u, t, c, v)
    IN  IF IndexViolated(T3) THEN TxResult(FALSE, T, 0, 0)
        ELSE TxResult(TRUE, T3, v, 1)

\* resetToDefault, BEGIN .. COMMIT
ResetTx(T, id, u, t, c) ==
    LET existing == OfPair(T, u, t) # {}
        v  == IF existing THEN NextVersion(T, u, t) ELSE 1
        T1 == IF existing THEN DeactivateAll(T, u, t) ELSE T
        T2 == IF existing THEN DeleteInactiveBelow(T1, u, t, v) ELSE T1
        T3 == InsertTemplate(T2, id, u, t, c, v)
    IN  IF IndexViolated(T3) THEN TxResult(FALSE, T, 0, 0)
        ELSE TxResult(TRUE, T3, v, 1)

\* restoreTemplate, checkResult.rows.length > 0 :
\* SELECT id ... WHERE username = $1 AND template_type = $2 AND version = $3
VersionExists_anyVersion(T, u, t, v) == OfPair(T, u, t) # {}

VersionExists(T, u, t, v) == Where(T, u, t, WVersion(v)) # {}

\* restoreTemplate, the statements after the existence check
RestoreTx_deletesActive(T, u, t, v) ==
    LET T1 == DeleteWhere(T, u, t, WActive)
        T2 == ActivateVersion(T1, u, t, v)
    IN  IF IndexViolated(T2) THEN TxResult(FALSE, T, 0, 0)
        ELSE TxResult(TRUE, T2, v, 0)

RestoreTx(T, u, t, v) ==
    LET T1 == DeactivateActive(T, u, t)
        T2 == ActivateVersion(T1, u, t, v)
    IN  IF IndexViolated(T2) THEN TxResult(FALSE, T, 0, 0)
        ELSE TxResult(TRUE, T2, v, 0)

\* deleteTemplate, the DELETE statement; count is result.rowCount
DeleteTx_activeOnly(T, u, t, version, deleteAll) ==
    LET w == DeleteClause(version, deleteAll)
    IN  TxResult(TRUE, T \ {r \in Where(T, u, t, w) : r.is_active}, 0,
                 Cardinality(Where(T, u, t, w)))

DeleteTx(T, u, t, version, deleteAll) ==
    LET w == DeleteClause(version, deleteAll)
    IN  TxResult(TRUE, DeleteWhere(T, u, t, w), 0, Cardinality(Where(T, u, t, w)))

Res(op, status, u, t, v, n) ==
    [op |-> op, status |-> status, username |-> u, templateType |-> t,
     version |-> v, count |-> n, failed |-> 0, content |-> "",
     reqVersion |-> 0, reqAll |-> FALSE,
     totalUsers |-> 0, succeeded |-> {}, failedOwner |-> "",
     templateSource |-> "", variablesSource |-> "", dbError |-> "none",
     storageUsed |-> TRUE]

\* a response sent before pool.connect() and before any query (history: storageUsed)
BeforeStorage(r) == [r EXCEPT !.storageUsed = FALSE]

\* the response of a request on (u, t) with the fields version and deleteAll / includeHistory
ResOf(op, status, u, t, version, all, v, n, c) ==
    [Res(op, status, u, t, v, n) EXCEPT !.content = c, !.reqVersion = version, !.reqAll = all]

\* history variables after a request on (u, t) that committed rows T2 and created version v (0: none)
History(u, t, T2, v, isUpsert, isDelete) ==
    /\ upsertRun' = [upsertRun EXCEPT ![<<u, t>>] =
            IF isUpsert /\ @ >= 0 THEN @ + 1
            ELSE IF OfPair(T2, u, t) = {} THEN 0
            ELSE -1]
    /\ lastAssigned' = [lastAssigned EXCEPT ![<<u, t>>] = IF v # 0 THEN v ELSE @]
    /\ deletedSince' = [deletedSince EXCEPT ![<<u, t>>] =
            IF v # 0 THEN FALSE ELSE IF isDelete THEN TRUE ELSE @]

NoWrite == [op |-> "none", username |-> "", templateType |-> "", version |-> 0,
            content |-> "", run |-> 0]

\* a refused write request: nothing is committed
NoHistory == UNCHANGED <<upsertRun, lastAssigned, deletedSince>> /\ lastWrite' = NoWrite

\* history: the request that has just committed; run counts its immediate repetitions
Wrote(op, u, t, v, c) ==
    LET w == [op |-> op, username |-> u, templateType |-> t, version |-> v,
              content |-> c, run |-> 1]
    IN  lastWrite' = IF [lastWrite EXCEPT !.run = 1] = w
                     THEN [w EXCEPT !.run = IF lastWrite.run >= 2 THEN 2 ELSE lastWrite.run + 1]
                     ELSE w

updateTemplate(u, t, c) ==
    /\ UNCHANGED <<chatVars, concVars>>
    /\ IF u = "" \/ t = "" \/ c = "" \/ t \notin validTypes
       THEN /\ res' = BeforeStorage(Res("updateTemplate", 400, "", "", 0, 0))
            /\ UNCHANGED <<prompt_templates, tplSeq>>
            /\ NoHistory
       ELSE /\ tplSeq <= MaxInserts
            /\ tplSeq' = tplSeq + 1
            /\ LET r == UpsertTx(prompt_templates, tplSeq, u, t, c)
               IN  IF r.ok
                   THEN /\ prompt_templates' = r.rows
                        /\ res' = ResOf("updateTemplate", 201, u, t, 0, FALSE, r.version, 0, c)
                        /\ History(u, t, r.rows, r.version, TRUE, FALSE)
                        /\ Wrote("updateTemplate", u, t, r.version, c)
                   ELSE /\ UNCHANGED prompt_templates
                        /\ res' = Res("updateTemplate", 409, "", "", 0, 0)
                        /\ NoHistory

restoreTemplate(u, t, v) ==
    /\ UNCHANGED <<chatVars, concVars, tplSeq>>
    /\ IF u = "" \/ t = "" \/ v = 0 \/ t \notin validTypes
       THEN /\ res' = BeforeStorage(Res("restoreTemplate", 400, "", "", 0, 0))
            /\ UNCHANGED prompt_templates
            /\ NoHistory
       ELSE IF ~VersionExists(prompt_templates, u, t, v)
       THEN /\ res' = ResOf("restoreTemplate", 404, u, t, v, FALSE, 0, 0, "")
            /\ UNCHANGED prompt_templates
            /\ NoHistory
       ELSE LET r == RestoreTx(prompt_templates, u, t, v)
            IN  IF r.ok
                THEN /\ prompt_templates' = r.rows
                     /\ res' = ResOf("restoreTemplate", 200, u, t, v, FALSE, v, 0, "")
                     /\ History(u, t, r.rows, 0, FALSE, FALSE)
                     /\ Wrote("restoreTemplate", u, t, v, "")
                ELSE /\ UNCHANGED prompt_templates
                     /\ res' = Res("restoreTemplate", 500, "", "", 0, 0)
                     /\ NoHistory

deleteTemplate(u, t, version, deleteAll) ==
    /\ UNCHANGED <<chatVars, concVars, tplSeq>>
    /\ IF u = "" \/ t = "" \/ t \notin validTypes
       THEN /\ res' = BeforeStorage(Res("deleteTemplate", 400, "", "", 0, 0))
            /\ UNCHANGED prompt_templates
            /\ NoHistory
       ELSE LET r == DeleteTx(prompt_templates, u, t, version, deleteAll)
            IN  IF r.count = 0
                THEN /\ res' = ResOf("deleteTemplate", 404, u, t, version, deleteAll, 0, 0, "")
                     /\ UNCHANGED prompt_templates
                     /\ NoHistory
                ELSE /\ prompt_templates' = r.rows
                     /\ res' = ResOf("deleteTemplate", 200, u, t, version, deleteAll,
                                     0, r.count, "")
                     /\ History(u, t, r.rows, 0, FALSE, TRUE)
                     /\ Wrote("deleteTemplate", u, t, version, "")

resetToDefault(u, t, flag, fileExists) ==
    /\ UNCHANGED <<chatVars, concVars>>
    /\ IF ~flag \/ u = "" \/ t = "" \/ t \notin validTypes
       THEN /\ res' = BeforeStorage(Res("resetToDefault", 400, "", "", 0, 0))
            /\ UNCHANGED <<prompt_templates, tplSeq>>
            /\ NoHistory
       ELSE IF ~fileExists
       THEN /\ res' = BeforeStorage(Res("resetToDefault", 404, "", "", 0, 0))
            /\ UNCHANGED <<prompt_templates, tplSeq>>
            /\ NoHistory
       ELSE /\ tplSeq <= MaxInserts
            /\ tplSeq' = tplSeq + 1
            /\ LET r == ResetTx(prompt_templates, tplSeq, u, t, DefaultContent(t))
               IN  IF r.ok
                   THEN /\ prompt_templates' = r.rows
                        /\ res' = ResOf("resetToDefault", 200, u, t, 0, FALSE, r.version, 0,
                                        DefaultContent(t))
                        /\ History(u, t, r.rows, r.version, FALSE, FALSE)
                        /\ Wrote("resetToDefault", u, t, r.version, DefaultContent(t))
                   ELSE /\ UNCHANGED prompt_templates
                        /\ res' = Res("resetToDefault", 409, "", "", 0, 0)
                        /\ NoHistory

\* the WHERE clause getTemplate builds from version and includeHistory
TemplateQuery_latest(version, includeHistory) ==
    IF version # 0 THEN WVersion(version)
    ELSE WAll

TemplateQuery(version, includeHistory) ==
    IF version # 0 THEN WVersion(version)
    ELSE IF includeHistory THEN WAll
    ELSE WActive

\* getTemplate: read-only, no transaction.  With includeHistory the response carries
\* totalVersions (count) and latestVersion (version), otherwise result.rows[0].
getTemplate(u, t, version, includeHistory) ==
    /\ UNCHANGED <<chatVars, concVars, prompt_templates, tplSeq>>
    /\ UNCHANGED <<upsertRun, lastAssigned, deletedSince, lastWrite>>
    /\ IF u = "" \/ t = "" \/ t \notin validTypes
       THEN res' = BeforeStorage(Res("getTemplate", 400, "", "", 0, 0))
       ELSE LET rows == Where(prompt_templates, u, t, TemplateQuery(version, includeHistory))
            IN  IF rows = {}
                THEN res' = ResOf("getTemplate", 404, u, t, version, includeHistory, 0, 0, "")
                ELSE IF includeHistory
                THEN res' = ResOf("getTemplate", 200, u, t, version, includeHistory,
                                  SetMax({r.version : r \in rows}), Cardinality(rows), "")
                ELSE \E row \in rows :
                        res' = ResOf("getTemplate", 200, u, t, version, includeHistory,
                                     row.version, 0, row.content)

\* the files of src/data that processPrompt reads
DataFiles == {"promptTemplate.json", "conceptMentor.txt", "assessmentPrompt.txt",
              "defaultTemplateValues.txt", "llmConfigs.json"}

\* SELECT content ... WHERE username = $1 AND template_type = $2 AND is_active = TRUE
ActiveContent(T, u, t) == {r.content : r \in Where(T, u, t, WActive)}

\* the query of processPrompt that the database answers with an error ("none": neither)
QueryErrors == {"none", "template", "variables"}

\* processPrompt: read-only.  missing is the file of src/data that does not exist
\* ("none": all exist), dbError the query that raises.  Both try blocks end in a catch
\* that falls back to the file, whatever was thrown.  content is the system content
\* before the placeholders are replaced; templateSource and variablesSource tell where
\* it and the variables come from.
processPrompt(u, promptType, missing, dbError) ==
    /\ UNCHANGED <<chatVars, concVars, prompt_templates, tplSeq>>
    /\ UNCHANGED <<upsertRun, lastAssigned, deletedSince, lastWrite>>
    /\ LET fromDb   == IF dbError = "template" THEN {}
                       ELSE ActiveContent(prompt_templates, u, promptType)
           varsDb   == IF dbError = "variables" THEN {}
                       ELSE ActiveContent(prompt_templates, u, "defaultTemplateValues")
           Answer(source, c) ==
               IF varsDb = {} /\ missing = "defaultTemplateValues.txt"
               THEN Res("processPrompt", 404, "", "", 0, 0)
               ELSE IF missing = "llmConfigs.json"
               THEN Res("processPrompt", 404, "", "", 0, 0)
               ELSE [ResOf("processPrompt", 200, u, promptType, 0, FALSE, 0, 0, c) EXCEPT
                        !.templateSource = source,
                        !.variablesSource = IF varsDb # {} THEN "database" ELSE "file",
                        !.dbError = dbError]
       IN  IF u = "" \/ promptType = "" \/ promptType \notin validTypes
           THEN res' = BeforeStorage(Res("processPrompt", 400, "", "", 0, 0))
           ELSE IF missing = "promptTemplate.json"
           THEN res' = BeforeStorage(Res("processPrompt", 404, "", "", 0, 0))
           ELSE IF fromDb # {}
           THEN \E c \in fromDb : res' = Answer("database", c)
           ELSE IF promptType \notin {"conceptMentor", "assessmentPrompt"}
           THEN res' = [ResOf("processPrompt", 400, u, promptType, 0, FALSE, 0, 0, "")
                           EXCEPT !.dbError = dbError]
           ELSE IF missing \in {"conceptMentor.txt", "assessmentPrompt.txt"}
                   /\ missing = promptType \o ".txt"
           THEN res' = Res("processPrompt", 404, "", "", 0, 0)
           ELSE res' = Answer("file", DefaultContent(promptType))

\* SELECT DISTINCT username FROM prompt_templates ORDER BY username
AllUsernames(T) == SelectSeq(SortedUsers, LAMBDA u : \E r \in T : r.username = u)

\* updateAllUsersToLatestDefaults, the loop over allUsernames.  st = [rows, id, aborted,
\* ok, bad, versions]; failUser is the owner whose INSERT raises a constraint violation.
\* After an error the PostgreSQL transaction is aborted: every later statement raises
\* 25P02 and is counted as a failure of its owner.
RECURSIVE BulkLoop(_, _, _, _)
BulkLoop(st, us, failUser, content) ==
    IF us = <<>> THEN st
    ELSE LET u == Head(us)
             r == UpsertTx(st.rows, st.id, u, "defaultTemplateValues", content)
         IN  IF st.aborted
             THEN BulkLoop([st EXCEPT !.bad = @ + 1], Tail(us), failUser, content)
             ELSE IF u = failUser \/ ~r.ok
             THEN \* the DELETE and the UPDATE have run when the INSERT is refused
                  BulkLoop([st EXCEPT !.aborted = TRUE, !.bad = @ + 1, !.id = @ + 1,
                                      !.rows = DeactivateActive(
                                                  DeleteInactive(@, u, "defaultTemplateValues"),
                                                  u, "defaultTemplateValues")],
                           Tail(us), failUser, content)
             ELSE BulkLoop([st EXCEPT !.rows = r.rows, !.id = @ + 1, !.ok = @ + 1,
                                      !.versions = [@ EXCEPT ![u] = r.version]],
                           Tail(us), failUser, content)

\* client.query('COMMIT') after the loop: PostgreSQL executes the COMMIT of an aborted
\* transaction as ROLLBACK
CommitRows_partial(st, T) == st.rows

CommitRows(st, T) == IF st.aborted THEN T ELSE st.rows

updateAllUsersToLatestDefaults(confirmUpdate, fileExists, failUser) ==
    /\ UNCHANGED <<chatVars, concVars>>
    /\ IF ~confirmUpdate
       THEN /\ res' = BeforeStorage(Res("updateAllUsers", 400, "", "", 0, 0))
            /\ UNCHANGED <<prompt_templates, tplSeq>>
            /\ NoHistory
       ELSE IF ~fileExists
       THEN /\ res' = BeforeStorage(Res("updateAllUsers", 404, "", "", 0, 0))
            /\ UNCHANGED <<prompt_templates, tplSeq>>
            /\ NoHistory
       ELSE LET us == AllUsernames(prompt_templates)
                t  == "defaultTemplateValues"
                st == BulkLoop([rows |-> prompt_templates, id |-> tplSeq, aborted |-> FALSE,
                                ok |-> 0, bad |-> 0, versions |-> [u \in Users |-> 0]],
                               us, failUser, DefaultContent(t))
                T2 == CommitRows(st, prompt_templates)
                done == {u \in Users : ~st.aborted /\ st.versions[u] # 0}
            IN  /\ us = <<>> \/ tplSeq <= MaxInserts
                /\ tplSeq' = st.id
                /\ prompt_templates' = T2
                /\ res' = [Res("updateAllUsers", 200, "", t, 0, st.ok) EXCEPT
                               !.failed = st.bad,
                               !.totalUsers = Len(us),
                               !.succeeded = {u \in Users : st.versions[u] # 0},
                               !.failedOwner = IF \E i \in 1 .. Len(us) : us[i] = failUser
                                               THEN failUser ELSE ""]
                /\ upsertRun' = [p \in Pairs |->
                       IF p[1] \in done /\ p[2] = t THEN -1 ELSE upsertRun[p]]
                /\ lastAssigned' = [p \in Pairs |->
                       IF p[1] \in done /\ p[2] = t THEN st.versions[p[1]] ELSE lastAssigned[p]]
                /\ deletedSince' = [p \in Pairs |->
                       IF p[1] \in done /\ p[2] = t THEN FALSE ELSE deletedSince[p]]
                /\ IF done = {} THEN lastWrite' = NoWrite
                   ELSE Wrote("updateAllUsers", "", t, 0, DefaultContent(t))

(***************************************************************************)
(* Table chat and the chat handlers, one request at a time                 *)
(***************************************************************************)
\* JSON values of the request body field conversation
JArray(items) == [kind |-> "array", items |-> items]
JString(x)    == [kind |-> "string", items |-> <<x>>]
JMissing      == [kind |-> "missing", items |-> <<>>]

RECURSIVE JoinItems(_)
JoinItems(items) ==
    IF Len(items) = 0 THEN <<>>
    ELSE IF Len(items) = 1 THEN <<Head(items)>>
    ELSE <<Head(items), ",">> \o JoinItems(Tail(items))

\* JSON.stringify(conversation): the text sent as parameter $1 / $2, token by token
JSONstringify(j) ==
    IF j.kind = "array" THEN <<"[">> \o JoinItems(j.items) \o <<"]">>
    ELSE <<"\"">> \o j.items \o <<"\"">>

\* the JSONB column parses the text; the driver returns the parsed value
JsonbIn(text) ==
    LET inner == SubSeq(text, 2, Len(text) - 1)
    IN  IF Head(text) = "[" THEN JArray(SelectSeq(inner, LAMBDA x : x # ","))
        ELSE [kind |-> "string", items |-> inner]

ChatRow(id, u, conv, st, ts) ==
    [id |-> id, user_id |-> u, conversation |-> conv, status |-> st, updated_at |-> ts]

validStatuses == {"paused", "completed", "stopped", "incomplete"}
LiveStatuses  == {"incomplete", "paused", "stopped"}

\* validStatuses.includes(status) ? status : 'incomplete'
finalStatusOf_passThrough(status) == IF status = "" THEN "incomplete" ELSE status

finalStatusOf(status) == IF status \in validStatuses THEN status ELSE "incomplete"

\* finalStatus === 'completed' || finalStatus === 'stopped'
IsTerminalRequest_always(finalStatus) == TRUE

IsTerminalRequest(finalStatus) == finalStatus \in {"completed", "stopped"}

\* data.shouldStartFresh: finalStatus === 'completed' || finalStatus === 'stopped'
ShouldStartFresh_completedOnly(finalStatus) == finalStatus = "completed"

ShouldStartFresh(finalStatus) == finalStatus = "completed" \/ finalStatus = "stopped"

\* createChat: UPDATE chat SET status = 'archived', updated_at = CURRENT_TIMESTAMP
\* WHERE user_id = $1 AND status IN ('incomplete', 'paused', 'stopped')
ArchiveLive_noStopped(C, u, ts) ==
    {IF r.user_id = u /\ r.status \in {"incomplete", "paused"}
        THEN [r EXCEPT !.status = "archived", !.updated_at = ts] ELSE r : r \in C}

ArchiveLive(C, u, ts) ==
    {IF r.user_id = u /\ r.status \in LiveStatuses
        THEN [r EXCEPT !.status = "archived", !.updated_at = ts] ELSE r : r \in C}

\* updateConversation: ... WHERE user_id = $1 AND status IN (...) AND id != $2
ArchiveOthers_noPaused(C, u, id, ts) ==
    {IF r.user_id = u /\ r.status \in {"incomplete", "stopped"} /\ r.id # id
        THEN [r EXCEPT !.status = "archived", !.updated_at = ts] ELSE r : r \in C}

ArchiveOthers(C, u, id, ts) ==
    {IF r.user_id = u /\ r.status \in LiveStatuses /\ r.id # id
        THEN [r EXCEPT !.status = "archived", !.updated_at = ts] ELSE r : r \in C}

\* INSERT INTO chat (user_id, conversation, status, created_at, updated_at) VALUES (...)
InsertChat(C, id, u, conv, st, ts) ==
    C \cup {ChatRow(id, u, JsonbIn(JSONstringify(conv)), st, ts)}

\* UPDATE chat SET conversation = $1, status = $2, updated_at = CURRENT_TIMESTAMP WHERE id = $3
UpdateChat_noWhere(C, id, conv, st, ts) ==
    {[r EXCEPT !.conversation = JsonbIn(JSONstringify(conv)),
               !.status = st, !.updated_at = ts] : r \in C}

UpdateChat(C, id, conv, st, ts) ==
    {IF r.id = id
        THEN [r EXCEPT !.conversation = JsonbIn(JSONstringify(conv)),
                       !.status = st, !.updated_at = ts]
        ELSE r : r \in C}

\* the keys of data.counts of getChatCounts
CountedStatuses == {"stopped", "paused", "completed", "incomplete", "archived"}
CountKeys       == CountedStatuses \cup {"active", "total"}
NoCounts        == [k \in CountKeys |-> 0]

\* a response: HTTP status, the fields of data, and (history) the conversation, the
\* status and the chat_id of the request
\* data.chat of getSessionStatus is a row or null
NoChat == ChatRow(0, "", JMissing, "", 0)

NoChatRes == [op |-> "none", status |-> 0, id |-> 0, user_id |-> "",
              chatStatus |-> "", shouldStartFresh |-> FALSE, reqConversation |-> JMissing,
              sessionType |-> "", hasActiveSession |-> FALSE, chat |-> NoChat,
              reqStatus |-> "", reqId |-> 0, counts |-> NoCounts, chats |-> <<>>,
              filter |-> "", total |-> 0, limit |-> 0, offset |-> 0, hasMore |-> FALSE,
              storageUsed |-> FALSE]

ChatRes(op, status, id, u, st, fresh) ==
    [op |-> op, status |-> status, id |-> id, user_id |-> u,
     chatStatus |-> st, shouldStartFresh |-> fresh, reqConversation |-> JMissing,
     sessionType |-> "", hasActiveSession |-> FALSE, chat |-> NoChat,
     reqStatus |-> "", reqId |-> 0, counts |-> NoCounts, chats |-> <<>>,
     filter |-> "", total |-> 0, limit |-> 0, offset |-> 0, hasMore |-> FALSE,
     storageUsed |-> TRUE]

\* history: the scenario "first session created incomplete, then updated to completed"
\* of the user whose sessions a successful write request has touched
LifecycleAfterCreate(u, finalStatus) ==
    IF {r \in chat : r.user_id = u} = {} /\ finalStatus = "incomplete"
    THEN "created" ELSE "other"

LifecycleAfterUpdate(u, finalStatus) ==
    IF lifecycle[u] = "created" /\ finalStatus = "completed"
    THEN "completed" ELSE "other"

createChat(user_id, conversation, status) ==
    /\ UNCHANGED <<tplVars, concVars>>
    /\ IF user_id = "" \/ conversation.kind = "missing" \/ conversation.kind # "array"
       THEN /\ chatRes' = BeforeStorage(ChatRes("createChat", 400, 0, "", "", FALSE))
            /\ UNCHANGED <<chat, chatSeq, now, lifecycle>>
       ELSE LET finalStatus == finalStatusOf(status)
                C1 == IF IsTerminalRequest(finalStatus)
                      THEN ArchiveLive(chat, user_id, now) ELSE chat
                C2 == InsertChat(C1, chatSeq, user_id, conversation, finalStatus, now)
            IN  /\ now <= MaxTime
                /\ now' = now + 1
                /\ chatSeq' = chatSeq + 1
                /\ chat' = C2
                /\ lifecycle' = [lifecycle EXCEPT
                                    ![user_id] = LifecycleAfterCreate(user_id, finalStatus)]
                /\ chatRes' = [ChatRes("createChat", 201, chatSeq, user_id, finalStatus,
                                       ShouldStartFresh(finalStatus))
                                  EXCEPT !.reqConversation = conversation,
                                         !.reqStatus = status]

updateConversation(chat_id, conversation, status) ==
    /\ UNCHANGED <<tplVars, concVars, chatSeq>>
    /\ IF chat_id = 0 \/ conversation.kind = "missing"
       THEN /\ chatRes' = BeforeStorage(ChatRes("updateConversation", 400, 0, "", "", FALSE))
            /\ UNCHANGED <<chat, now, lifecycle>>
       ELSE IF {r \in chat : r.id = chat_id} = {}
       THEN /\ chatRes' = [ChatRes("updateConversation", 404, 0, "", "", FALSE)
                              EXCEPT !.reqId = chat_id]
            /\ UNCHANGED <<chat, now, lifecycle>>
       ELSE LET finalStatus  == finalStatusOf(status)
                existingChat == CHOOSE r \in chat : r.id = chat_id
                C1 == IF IsTerminalRequest(finalStatus)
                      THEN ArchiveOthers(chat, existingChat.user_id, chat_id, now) ELSE chat
                C2 == UpdateChat(C1, chat_id, conversation, finalStatus, now)
            IN  /\ now <= MaxTime
                /\ now' = now + 1
                /\ chat' = C2
                /\ lifecycle' = [lifecycle EXCEPT ![existingChat.user_id] =
                                    LifecycleAfterUpdate(existingChat.user_id, finalStatus)]
                /\ chatRes' = [ChatRes("updateConversation", 200, chat_id,
                                       existingChat.user_id, finalStatus,
                                       ShouldStartFresh(finalStatus))
                                  EXCEPT !.reqId = chat_id,
                                         !.reqConversation = conversation,
                                         !.reqStatus = status]

\* getSessionStatus: SELECT ... FROM chat WHERE user_id = $1
\* AND status IN ('paused', 'stopped', 'incomplete')
ActiveSessions_withCompleted(C, u) ==
    {r \in C : r.user_id = u /\ r.status \in {"paused", "stopped", "incomplete", "completed"}}

ActiveSessions(C, u) ==
    {r \in C : r.user_id = u /\ r.status \in {"paused", "stopped", "incomplete"}}

\* ORDER BY updated_at DESC LIMIT 1: the rows that can come first
MostRecentlyUpdated_oldest(S) == {r \in S : \A x \in S : x.updated_at >= r.updated_at}

MostRecentlyUpdated(S) == {r \in S : \A x \in S : x.updated_at <= r.updated_at}

getSessionStatus(user_id) ==
    /\ UNCHANGED <<tplVars, concVars, chat, chatSeq, now, lifecycle>>
    /\ IF user_id = ""
       THEN chatRes' = BeforeStorage(ChatRes("getSessionStatus", 400, 0, "", "", FALSE))
       ELSE LET activeResult == ActiveSessions(chat, user_id)
            IN  IF activeResult # {}
                THEN \E row \in MostRecentlyUpdated(activeResult) :
                        chatRes' = [ChatRes("getSessionStatus", 200, row.id, user_id,
                                            row.status, FALSE)
                                       EXCEPT !.sessionType = "resume",
                                              !.hasActiveSession = TRUE,
                                              !.chat = row]
                ELSE chatRes' = [ChatRes("getSessionStatus", 200, 0, user_id, "", TRUE)
                                    EXCEPT !.sessionType = "fresh"]

\* getChatCounts: SELECT COUNT(*) as count FROM chat WHERE user_id = $1 AND status = $2
CountStatus_anyUser(C, u, st) == Cardinality({r \in C : r.status = st})

CountStatus(C, u, st) == Cardinality({r \in C : r.user_id = u /\ r.status = st})

\* SELECT COUNT(*) as count FROM chat WHERE user_id = $1
CountUser(C, u) == Cardinality({r \in C : r.user_id = u})

getChatCounts(user_id) ==
    /\ UNCHANGED <<tplVars, concVars, chat, chatSeq, now, lifecycle>>
    /\ IF user_id = ""
       THEN chatRes' = BeforeStorage(ChatRes("getChatCounts", 400, 0, "", "", FALSE))
       ELSE LET byStatus == [st \in CountedStatuses |-> CountStatus(chat, user_id, st)]
                active   == byStatus["paused"] + byStatus["stopped"] + byStatus["incomplete"]
                total    == CountUser(chat, user_id)
            IN  chatRes' = [ChatRes("getChatCounts", 200, 0, user_id, "", FALSE) EXCEPT
                               !.counts = [k \in CountKeys |->
                                             IF k = "active" THEN active
                                             ELSE IF k = "total" THEN total
                                             ELSE byStatus[k]]]

\* getChatHistory: the WHERE clause chosen by the query parameter status
HistoryStatuses == {"paused", "completed", "stopped", "incomplete", "archived"}

HistoryFilter_activeWithCompleted(C, u, status) ==
    IF status = "all" THEN {r \in C : r.user_id = u}
    ELSE IF status = "active"
    THEN {r \in C : r.user_id = u /\ r.status \in {"paused", "stopped", "incomplete", "completed"}}
    ELSE {r \in C : r.user_id = u /\ r.status = status}

HistoryFilter(C, u, status) ==
    IF status = "all" THEN {r \in C : r.user_id = u}
    ELSE IF status = "active"
    THEN {r \in C : r.user_id = u /\ r.status \in {"paused", "stopped", "incomplete"}}
    ELSE {r \in C : r.user_id = u /\ r.status = status}

\* ORDER BY updated_at DESC: the orders the database can return (rows written by one
\* transaction carry the same updated_at, their mutual order is not determined)
OrderByUpdatedAtDesc(S) ==
    {sq \in [1 .. Cardinality(S) -> S] :
        \A i, j \in 1 .. Cardinality(S) :
            i < j => sq[i] # sq[j] /\ sq[i].updated_at >= sq[j].updated_at}

\* LIMIT $2 OFFSET $3
LimitOffset(sq, limit, offset) ==
    IF offset >= Len(sq) THEN <<>>
    ELSE SubSeq(sq, offset + 1, IF offset + limit < Len(sq) THEN offset + limit ELSE Len(sq))

\* pagination.hasMore
HasMore(limit, offset, total) == (offset + limit) < total

getChatHistory(user_id, status, limit, offset) ==
    /\ UNCHANGED <<tplVars, concVars, chat, chatSeq, now, lifecycle>>
    /\ IF user_id = ""
       THEN chatRes' = BeforeStorage(ChatRes("getChatHistory", 400, 0, "", "", FALSE))
       ELSE IF status \notin {"all", "active"} \cup HistoryStatuses
       THEN chatRes' = BeforeStorage(ChatRes("getChatHistory", 400, 0, "", "", FALSE))
       ELSE IF limit < 0 \/ offset < 0    \* the database refuses a negative LIMIT or OFFSET
       THEN chatRes' = ChatRes("getChatHistory", 500, 0, "", "", FALSE)
       ELSE LET selected == HistoryFilter(chat, user_id, status)
                total    == Cardinality(selected)
            IN  \E sq \in OrderByUpdatedAtDesc(selected) :
                    chatRes' = [ChatRes("getChatHistory", 200, 0, user_id, "", FALSE) EXCEPT
                                   !.chats = LimitOffset(sq, limit, offset),
                                   !.filter = status,
                                   !.total = total,
                                   !.limit = limit,
                                   !.offset = offset,
                                   !.hasMore = HasMore(limit, offset, total)]

\* deleteChat: DELETE FROM chat WHERE id = $1 RETURNING id, user_id, status
DeleteChat_wholeUser(C, id) ==
    {r \in C : \A x \in C : x.id = id => r.user_id # x.user_id}

DeleteChat(C, id) == {r \in C : r.id # id}

deleteChat(chat_id) ==
    /\ UNCHANGED <<tplVars, concVars, chatSeq, now>>
    /\ IF chat_id = 0
       THEN /\ chatRes' = BeforeStorage(ChatRes("deleteChat", 400, 0, "", "", FALSE))
            /\ UNCHANGED <<chat, lifecycle>>
       ELSE IF {r \in chat : r.id = chat_id} = {}
       THEN /\ chatRes' = [ChatRes("deleteChat", 404, 0, "", "", FALSE)
                              EXCEPT !.reqId = chat_id]
            /\ UNCHANGED <<chat, lifecycle>>
       ELSE LET row == CHOOSE r \in chat : r.id = chat_id
            IN  /\ chat' = DeleteChat(chat, chat_id)
                /\ lifecycle' = [lifecycle EXCEPT ![row.user_id] = "other"]
                /\ chatRes' = [ChatRes("deleteChat", 200, row.id, row.user_id,
                                       row.status, FALSE)
                                  EXCEPT !.reqId = chat_id]

\* getChatById: SELECT ... FROM chat WHERE id = $1
getChatById(chat_id) ==
    /\ UNCHANGED <<tplVars, concVars, chat, chatSeq, now, lifecycle>>
    /\ IF chat_id = 0
       THEN chatRes' = BeforeStorage(ChatRes("getChatById", 400, 0, "", "", FALSE))
       ELSE IF {r \in chat : r.id = chat_id} = {}
       THEN chatRes' = [ChatRes("getChatById", 404, 0, "", "", FALSE)
                           EXCEPT !.reqId = chat_id]
       ELSE \E row \in {r \in chat : r.id = chat_id} :
               chatRes' = [ChatRes("getChatById", 200, row.id, row.user_id,
                                   row.status, FALSE)
                              EXCEPT !.reqId = chat_id, !.chat = row]

(***************************************************************************)
(* Spec: the template handlers, one request at a time                      *)
(***************************************************************************)
Idle == "idle"
Procs == {1, 2}

InitTemplates ==
    /\ prompt_templates = {}
    /\ tplSeq = 1
    /\ res = NoRes
    /\ upsertRun = [p \in Pairs |-> 0]
    /\ lastAssigned = [p \in Pairs |-> 0]
    /\ deletedSince = [p \in Pairs |-> FALSE]
    /\ lastWrite = NoWrite

InitChat ==
    /\ chat = {}
    /\ chatSeq = 1
    /\ now = 1
    /\ chatRes = NoChatRes
    /\ lifecycle = [u \in Users |-> "none"]

NoReq == [op |-> "none", username |-> "", templateType |-> "", content |-> "",
          version |-> 0, deleteAll |-> FALSE, nextVersion |-> 0, count |-> 0,
          raced |-> FALSE, alone |-> TRUE]
NoTx == [writes |-> {}, dels |-> {}, todo |-> {}, blocked |-> FALSE]
\* code, discarded, alone and peer are history: the database error code that ended the
\* request, the number of its uncommitted row changes, whether a restore overlapped
\* with nothing but restores of other versions of its template, and the answer given
\* before to the restore that ran concurrently with this one
NoPeer == [status |-> 0, version |-> 0]
NoResp == [proc |-> 0, op |-> "none", status |-> 0, version |-> 0, count |-> 0,
           raced |-> FALSE, alone |-> TRUE, code |-> "", discarded |-> 0,
           peer |-> NoPeer]

\* no chat request in progress; answer, code, peers and scenario are history: the HTTP
\* status and the database error code of the request that ended last, the number of
\* requests it overlapped with (2: two or more), and whether it and the request it
\* overlapped with set two different live sessions of one user to completed or stopped
NoChatTx == [op |-> "none", pc |-> Idle, chat_id |-> 0, user_id |-> "", status |-> "",
             ts |-> 0, writes |-> {}, todo |-> {}, wait |-> 0, k |-> 0, counts |-> NoCounts,
             answer |-> 0, code |-> "", peers |-> 0, scenario |-> FALSE]

\* no request in progress: no connection held, no transaction
NoConn == [op |-> "none", phase |-> "idle", n |-> 0, k |-> 0, client |-> FALSE,
           connects |-> 0, releases |-> 0, tx |-> "none", status |-> 0, failures |-> 0]

InitConc ==
    /\ pc = [p \in Procs |-> Idle]
    /\ req = [p \in Procs |-> NoReq]
    /\ tx = [p \in Procs |-> NoTx]
    /\ resp = NoResp
    /\ conn = NoConn
    /\ chatTx = [p \in Procs |-> NoChatTx]

Init == InitTemplates /\ InitChat /\ InitConc

Next ==
    \/ \E p \in PairInputs, c \in Contents : updateTemplate(p[1], p[2], c)
    \/ \E p \in BadPairInputs, c \in Contents : updateTemplate(p[1], p[2], c)
    \/ \E p \in PairInputs : updateTemplate(p[1], p[2], "")
    \/ \E p \in PairInputs, v \in VersionInputs : restoreTemplate(p[1], p[2], v)
    \/ \E p \in BadPairInputs : restoreTemplate(p[1], p[2], 1)
    \/ \E p \in PairInputs : restoreTemplate(p[1], p[2], 0)
    \/ \E p \in PairInputs, m \in DeleteModes : deleteTemplate(p[1], p[2], m[1], m[2])
    \/ \E p \in BadPairInputs : deleteTemplate(p[1], p[2], 0, FALSE)
    \/ \E p \in PairInputs, f \in BOOLEAN : resetToDefault(p[1], p[2], TRUE, f)
    \/ \E p \in BadPairInputs : resetToDefault(p[1], p[2], TRUE, TRUE)
    \/ \E p \in PairInputs : resetToDefault(p[1], p[2], FALSE, TRUE)
    \/ \E fu \in Users \cup {"none"} : updateAllUsersToLatestDefaults(TRUE, TRUE, fu)
    \/ \E confirm \in BOOLEAN, f \in BOOLEAN :
            /\ ~(confirm /\ f)
            /\ updateAllUsersToLatestDefaults(confirm, f, "none")

Spec == Init /\ [][Next]_vars

(***************************************************************************)
(* ReadSpec: getTemplate between the committed writes of the well-formed   *)
(* requests, one request at a time                                         *)
(***************************************************************************)
ReadNext ==
    \/ \E p \in PairInputs, m \in GetModes : getTemplate(p[1], p[2], m[1], m[2])
    \/ \E p \in BadPairInputs : getTemplate(p[1], p[2], 0, FALSE)
    \/ \E p \in PairInputs, c \in Contents : updateTemplate(p[1], p[2], c)
    \/ \E p \in PairInputs, v \in VersionInputs : restoreTemplate(p[1], p[2], v)
    \/ \E p \in PairInputs, m \in DeleteModes : deleteTemplate(p[1], p[2], m[1], m[2])
    \/ \E p \in PairInputs : resetToDefault(p[1], p[2], TRUE, TRUE)
    \/ \E p \in PairInputs : processPrompt(p[1], p[2], "none", "none")
    \/ \E f \in DataFiles : processPrompt("u1", "conceptMentor", f, "none")
    \/ \E p \in BadPairInputs : processPrompt(p[1], p[2], "none", "none")

ReadSpec == Init /\ [][ReadNext]_vars

(***************************************************************************)
(* PromptSpec: processPrompt, with queries that the database may answer    *)
(* with an error, and getTemplate between the committed writes of the      *)
(* well-formed requests, one request at a time                             *)
(***************************************************************************)
PromptNext ==
    \/ \E p \in PairInputs, e \in QueryErrors : processPrompt(p[1], p[2], "none", e)
    \/ \E p \in PairInputs : getTemplate(p[1], p[2], 0, FALSE)
    \/ \E p \in PairInputs, c \in Contents : updateTemplate(p[1], p[2], c)
    \/ \E p \in PairInputs, v \in VersionInputs : restoreTemplate(p[1], p[2], v)
    \/ \E p \in PairInputs, m \in DeleteModes : deleteTemplate(p[1], p[2], m[1], m[2])
    \/ \E p \in PairInputs : resetToDefault(p[1], p[2], TRUE, TRUE)

PromptSpec == Init /\ [][PromptNext]_vars

(***************************************************************************)
(* ChatSpec: the chat handlers, one request at a time                      *)
(***************************************************************************)
ConvCreate   == JArray(<<"hi">>)
ConvUpdate   == JArray(<<"hi", "ok">>)
StatusInputs == validStatuses \cup {"archived", ""}    \* "" : field missing
ChatIds      == 1 .. MaxTime

ChatNext ==
    \/ \E u \in Users, st \in StatusInputs : createChat(u, ConvCreate, st)
    \/ \E c \in {JMissing, JString("text")} : createChat("u1", c, "paused")
    \/ createChat("", ConvCreate, "paused")
    \/ \E id \in ChatIds, st \in StatusInputs : updateConversation(id, ConvUpdate, st)
    \/ \E id \in ChatIds : updateConversation(id, JString("text"), "paused")
    \/ updateConversation(1, JMissing, "paused")
    \/ \E u \in Users : getSessionStatus(u)
    \/ getSessionStatus("")

ChatSpec == Init /\ [][ChatNext]_vars

(***************************************************************************)
(* ChatReadSpec: counts and history of sessions between the writes of      *)
(* well-formed chat requests, one request at a time                        *)
(***************************************************************************)
\* status, limit, offset of a history request (status all, limit 20, offset 0 are the defaults)
HistoryInputs == {<<"all", 20, 0>>, <<"active", 1, 0>>, <<"active", 1, 1>>,
                  <<"archived", 20, 0>>, <<"completed", 1, 0>>}

ChatReadNext ==
    \/ \E st \in validStatuses : createChat("u1", ConvCreate, st)
    \/ createChat("u2", ConvCreate, "incomplete")
    \/ \E id \in ChatIds, st \in {"completed", "paused"} :
            updateConversation(id, ConvUpdate, st)
    \/ \E u \in Users \cup {""} : getChatCounts(u)
    \/ \E u \in Users, h \in HistoryInputs : getChatHistory(u, h[1], h[2], h[3])
    \/ \E f \in {"bogus", ""} : getChatHistory("u1", f, 20, 0)
    \/ getChatHistory("", "all", 20, 0)
    \/ getChatHistory("u1", "all", -1, 0)

ChatReadSpec == Init /\ [][ChatReadNext]_vars

(***************************************************************************)
(* ChatDeleteSpec: deletion and lookup of sessions by id between the       *)
(* writes of well-formed chat requests, one request at a time              *)
(***************************************************************************)
ChatDeleteNext ==
    \/ \E u \in Users, st \in {"incomplete", "paused", "completed"} :
            createChat(u, ConvCreate, st)
    \/ \E id \in ChatIds, st \in {"completed", "paused"} :
            updateConversation(id, ConvUpdate, st)
    \/ \E id \in ChatIds : deleteChat(id)
    \/ deleteChat(0)
    \/ \E id \in ChatIds : getChatById(id)
    \/ getChatById(0)

ChatDeleteSpec == Init /\ [][ChatDeleteNext]_vars

(***************************************************************************)
(* ValidationSpec: well-formed and malformed requests of the template      *)
(* handlers and of createChat, one request at a time                       *)
(***************************************************************************)
BadConversations == {JMissing, JString("text")}

ValidationNext ==
    \/ \E c \in Contents : updateTemplate("u1", "conceptMentor", c)
    \/ \E p \in BadPairInputs, c \in Contents : updateTemplate(p[1], p[2], c)
    \/ \E p \in PairInputs : updateTemplate(p[1], p[2], "")
    \/ restoreTemplate("u1", "conceptMentor", 1)
    \/ \E p \in BadPairInputs : restoreTemplate(p[1], p[2], 1)
    \/ \E p \in PairInputs : restoreTemplate(p[1], p[2], 0)
    \/ deleteTemplate("u1", "conceptMentor", 0, FALSE)
    \/ \E p \in BadPairInputs : deleteTemplate(p[1], p[2], 0, FALSE)
    \/ \E p \in BadPairInputs : resetToDefault(p[1], p[2], TRUE, TRUE)
    \/ \E p \in PairInputs : resetToDefault(p[1], p[2], FALSE, TRUE)
    \/ createChat("u1", ConvCreate, "paused")
    \/ \E c \in BadConversations : createChat("u1", c, "paused")
    \/ createChat("", ConvCreate, "paused")

ValidationSpec == Init /\ [][ValidationNext]_vars

(***************************************************************************)
(* ConnSpec: the connection and the transaction of one request, step by    *)
(* step.  Every handler that calls pool.connect() has the same skeleton:   *)
(*   try { validation; client = connect;                                   *)
(*         try { BEGIN; statements; COMMIT }                               *)
(*         catch { try { ROLLBACK } catch {}; throw } }                    *)
(*   catch { error response } finally { if (client) client.release() }     *)
(* Each call to the storage can succeed or raise.                          *)
(***************************************************************************)
ConnOps == {"updateTemplate", "deleteTemplate", "restoreTemplate", "resetToDefault",
            "updateAllUsersToLatestDefaults", "createChat", "updateConversation",
            "deleteChat"}

\* the numbers of statements a request can run between BEGIN and COMMIT (the bulk
\* update: the user query and four statements per user, for one or two users)
StatementCounts(op) ==
    CASE op = "updateTemplate"     -> {4}
      [] op = "deleteTemplate"     -> {1}
      [] op = "restoreTemplate"    -> {3}
      [] op = "resetToDefault"     -> {2, 5}
      [] op = "updateAllUsersToLatestDefaults" -> {5, 9}
      [] op = "createChat"         -> {1, 2}
      [] op = "updateConversation" -> {2, 3}
      [] op = "deleteChat"         -> {1}

\* the statement whose empty result ends the request early (0: there is none)
NoRowAt(op) ==
    IF op \in {"deleteTemplate", "restoreTemplate", "updateConversation", "deleteChat",
               "updateAllUsersToLatestDefaults"}
    THEN 1 ELSE 0

\* where the request continues after that empty result: ROLLBACK and 404, or (bulk
\* update without users) COMMIT and 200
NoRowExit_noRollback(op) ==
    IF op = "updateAllUsersToLatestDefaults" THEN "commit" ELSE "finally"

NoRowExit(op) ==
    IF op = "updateAllUsersToLatestDefaults" THEN "commit" ELSE "notFound"

\* the bulk update runs the statements of a user inside try { } catch (userError) { }
InnerCatch(op, k) == op = "updateAllUsersToLatestDefaults" /\ k >= 1

\* the status of the outer catch block
ErrorStatuses(op) ==
    IF op \in {"updateTemplate", "resetToDefault"} THEN {409, 500} ELSE {500}

ConnFrame == UNCHANGED <<tplVars, chatVars, pc, req, tx, resp, chatTx>>

\* the request arrives; a request that fails validation returns 400 at once
ConnReceive(op, valid, n) ==
    /\ conn.phase \in {"idle", "returned"}
    /\ conn' = [NoConn EXCEPT !.op = op, !.n = n,
                              !.phase = IF valid THEN "connect" ELSE "finally",
                              !.status = IF valid THEN 0 ELSE 400]
    /\ ConnFrame

\* client = await pool.connect()
ConnConnect(ok) ==
    /\ conn.phase = "connect"
    /\ conn' = IF ok
               THEN [conn EXCEPT !.client = TRUE, !.connects = @ + 1, !.phase = "begin"]
               ELSE [conn EXCEPT !.status = 500, !.phase = "finally"]
    /\ ConnFrame

\* await client.query('BEGIN')
ConnBegin(ok) ==
    /\ conn.phase = "begin"
    /\ conn' = IF ok THEN [conn EXCEPT !.tx = "open", !.phase = "body"]
               ELSE [conn EXCEPT !.phase = "catch", !.failures = @ + 1]
    /\ ConnFrame

\* the next statement of the transaction
ConnStatement(outcome) ==
    /\ conn.phase = "body"
    /\ LET next == IF conn.k + 1 = conn.n THEN "commit" ELSE "body"
       IN  \/ /\ outcome = "ok"
              /\ conn' = [conn EXCEPT !.k = @ + 1, !.phase = next]
           \/ /\ outcome = "empty"
              /\ conn.k + 1 = NoRowAt(conn.op)
              /\ conn' = [conn EXCEPT !.k = @ + 1, !.phase = NoRowExit(conn.op),
                                      !.status = IF NoRowExit(conn.op) = "commit"
                                                 THEN 0 ELSE 404]
           \/ /\ outcome = "error"
              /\ conn' = IF InnerCatch(conn.op, conn.k)
                         THEN [conn EXCEPT !.k = @ + 1, !.phase = next, !.failures = @ + 1]
                         ELSE [conn EXCEPT !.phase = "catch", !.failures = @ + 1]
    /\ ConnFrame

\* await client.query('ROLLBACK'); return res.status(404)
ConnNotFound(ok) ==
    /\ conn.phase = "notFound"
    /\ conn' = IF ok THEN [conn EXCEPT !.tx = "rolledBack", !.phase = "finally"]
               ELSE [conn EXCEPT !.status = 0, !.phase = "catch", !.failures = @ + 1]
    /\ ConnFrame

\* await client.query('COMMIT'); res.json(...)
ConnCommit(ok) ==
    /\ conn.phase = "commit"
    /\ conn' = IF ok THEN [conn EXCEPT !.tx = "committed", !.status = 200, !.phase = "finally"]
               ELSE [conn EXCEPT !.phase = "catch", !.failures = @ + 1]
    /\ ConnFrame

\* catch (transactionError) { try { ROLLBACK } catch (rollbackError) {} throw },
\* then the outer catch answers
ConnCatch(ok, status) ==
    /\ conn.phase = "catch"
    /\ status \in ErrorStatuses(conn.op)
    /\ conn' = [conn EXCEPT !.tx = IF conn.tx # "open" THEN conn.tx
                                    ELSE IF ok THEN "rolledBack" ELSE "rollbackAttempted",
                            !.status = status, !.phase = "finally"]
    /\ ConnFrame

\* finally { if (client) client.release() }
ConnFinally ==
    /\ conn.phase = "finally"
    /\ conn' = IF conn.client
               THEN [conn EXCEPT !.client = FALSE, !.releases = @ + 1, !.phase = "returned"]
               ELSE [conn EXCEPT !.phase = "returned"]
    /\ ConnFrame

ConnNext ==
    \/ \E op \in ConnOps, valid \in BOOLEAN, n \in 1 .. 9 :
            n \in StatementCounts(op) /\ ConnReceive(op, valid, n)
    \/ \E ok \in BOOLEAN : ConnConnect(ok)
    \/ \E ok \in BOOLEAN : ConnBegin(ok)
    \/ \E outcome \in {"ok", "empty", "error"} : ConnStatement(outcome)
    \/ \E ok \in BOOLEAN : ConnNotFound(ok)
    \/ \E ok \in BOOLEAN : ConnCommit(ok)
    \/ \E ok \in BOOLEAN, status \in {409, 500} : ConnCatch(ok, status)
    \/ ConnFinally

ConnSpec == Init /\ [][ConnNext]_vars

(***************************************************************************)
(* ConcSpec: two concurrent template requests, statement by statement.     *)
(* The store is PostgreSQL at READ COMMITTED: a statement sees the         *)
(* committed rows and the uncommitted effects of its own transaction; an   *)
(* UPDATE or DELETE waits for the rows it selected that another            *)
(* transaction has modified, and re-evaluates its WHERE clause on them     *)
(* once that transaction has ended; an entry into the unique index waits   *)
(* for a colliding row of a transaction in progress; two transactions      *)
(* waiting for each other are a deadlock, which ends one of them (40P01).  *)
(***************************************************************************)
ConcPairs == {<<"u1", "conceptMentor">>}

IdsOf(rows) == {r.id : r \in rows}

\* the rows the transaction of p has locked (updated, deleted or inserted)
TouchedOf(t) == IdsOf(t.writes) \cup t.dels
Touched(p) == TouchedOf(tx[p])

\* what a statement of p sees
ViewOf(t) == {r \in prompt_templates : r.id \notin TouchedOf(t)} \cup t.writes
View(p) == ViewOf(tx[p])

LockedByOther(p, id) == \E q \in Procs \ {p} : id \in Touched(q)

InProgress(p) == pc[p] # Idle

\* the writing statement at each position: WHERE clause, effect, next position
StmtAt(p) ==
    LET r == req[p]
    IN  CASE pc[p] = "upd_delete"     -> [w |-> WInactive, kind |-> "delete", next |-> "upd_deactivate"]
          [] pc[p] = "upd_deactivate" -> [w |-> WActive, kind |-> "deactivate", next |-> "upd_insert"]
          [] pc[p] = "rst_deactivate" -> [w |-> WAll, kind |-> "deactivate", next |-> "rst_delete"]
          [] pc[p] = "rst_delete"     -> [w |-> WInactiveBelow(r.nextVersion), kind |-> "delete",
                                          next |-> "rst_insert"]
          [] pc[p] = "rs_deactivate"  -> [w |-> WActive, kind |-> "deactivate", next |-> "rs_activate"]
          [] pc[p] = "rs_activate"    -> [w |-> WVersion(r.version), kind |-> "activate",
                                          next |-> "rs_commit"]
          [] pc[p] = "del_delete"     -> [w |-> DeleteClause(r.version, r.deleteAll), kind |-> "delete",
                                          next |-> "del_commit"]

WriteLabels  == {"upd_delete", "upd_deactivate", "rst_deactivate", "rst_delete",
                 "rs_deactivate", "rs_activate", "del_delete"}
InsertLabels == {"upd_insert", "rst_insert"}
SelectLabels == {"upd_select", "rst_select"}
CommitLabels == {"upd_commit", "rst_commit", "rs_commit", "del_commit"}
InsertingOps == {"updateTemplate", "resetToDefault"}

\* the effect of a statement of kind k on the rows it selected
ApplyTo(t, rows, k) ==
    IF k = "delete"
    THEN [t EXCEPT !.writes = {r \in @ : r.id \notin IdsOf(rows)},
                   !.dels = @ \cup IdsOf(rows)]
    ELSE [t EXCEPT !.writes = {r \in @ : r.id \notin IdsOf(rows)}
                        \cup {[r EXCEPT !.is_active = (k = "activate")] : r \in rows}]

\* p enters the rows X into unique_active_template: a collision with a row that no
\* transaction in progress has modified raises 23505 ...
IndexCollision_never(p, X) == FALSE

IndexCollision(p, X) ==
    \/ \E x1, x2 \in X : x1.id # x2.id /\ unique_active_template(x1, x2)
    \/ \E x \in X, r \in View(p) :
          /\ r.id \notin IdsOf(X)
          /\ ~LockedByOther(p, r.id)
          /\ unique_active_template(x, r)

\* ... and a collision with a row of a transaction in progress waits for that transaction
IndexWaitsFor(p, X) ==
    {q \in Procs \ {p} :
        \E x \in X :
           \/ \E r \in tx[q].writes : unique_active_template(x, r)
           \/ \E r \in prompt_templates : r.id \in Touched(q) /\ unique_active_template(x, r)}

\* the row the INSERT of p is about to add
NewRow(p) ==
    TemplateRow(tplSeq, req[p].username, req[p].templateType, req[p].content,
                req[p].nextVersion, TRUE)

\* the rows a blocked statement of p still has to process, as they are now
Pending(p) ==
    {r \in View(p) : r.id \in tx[p].todo
                     /\ Matches(r, req[p].username, req[p].templateType, StmtAt(p).w)}

Activated(rows) == {[r EXCEPT !.is_active = TRUE] : r \in rows}

\* the transactions p is waiting for
WaitsFor(p) ==
    IF tx[p].blocked
    THEN {q \in Procs \ {p} : tx[p].todo \cap Touched(q) # {}}
         \cup (IF StmtAt(p).kind = "activate"
               THEN IndexWaitsFor(p, Activated(Pending(p))) ELSE {})
    ELSE IF pc[p] \in InsertLabels THEN IndexWaitsFor(p, {NewRow(p)})
    ELSE {}

Resp(p, status, v, n) ==
    [proc |-> p, op |-> req[p].op, status |-> status, version |-> v, count |-> n,
     raced |-> req[p].raced, alone |-> req[p].alone, code |-> "", discarded |-> 0,
     peer |-> IF /\ req[p].op = "restoreTemplate" /\ req[p].raced /\ req[p].alone
                 /\ resp.op = "restoreTemplate" /\ resp.raced /\ resp.alone
                 /\ resp.proc # p
              THEN [status |-> resp.status, version |-> resp.version]
              ELSE NoPeer]

\* the catch blocks: ROLLBACK, then 409 for code 23505 in updateTemplate and
\* resetToDefault, 500 otherwise
ErrorStatus(op, code) == IF code = "23505" /\ op \in InsertingOps THEN 409 ELSE 500

Failed(p, code) ==
    [Resp(p, ErrorStatus(req[p].op, code), 0, 0) EXCEPT
        !.code = code,
        !.discarded = Cardinality(tx[p].writes) + Cardinality(tx[p].dels)]

\* catch (transactionError): client.query('ROLLBACK'), then the error response
Raise_keepsWrites(p, code) ==
    /\ tx' = [tx EXCEPT ![p] = NoTx]
    /\ pc' = [pc EXCEPT ![p] = Idle]
    /\ resp' = Failed(p, code)
    /\ req' = [req EXCEPT ![p] = NoReq]
    /\ prompt_templates' = View(p)

Raise(p, code) ==
    /\ tx' = [tx EXCEPT ![p] = NoTx]
    /\ pc' = [pc EXCEPT ![p] = Idle]
    /\ resp' = Failed(p, code)
    /\ req' = [req EXCEPT ![p] = NoReq]
    /\ UNCHANGED prompt_templates

ConcFrame ==
    UNCHANGED <<res, upsertRun, lastAssigned, deletedSince, lastWrite, chatVars, conn, chatTx>>

\* an INSERT of every request in progress still fits under the cap of the sequence
SeqAvailable ==
    tplSeq + Cardinality({q \in Procs : InProgress(q) /\ req[q].op \in InsertingOps})
        <= MaxConcInserts

\* the requests after p has begun request r: the requests in racing have raced with p,
\* and a restore in progress that is not in racing has overlapped with another kind
\* of request
Begun(p, r, racing) ==
    [q \in Procs |->
        IF q = p THEN r
        ELSE IF q \in racing THEN [req[q] EXCEPT !.raced = TRUE]
        ELSE IF InProgress(q) /\ req[q].op = "restoreTemplate"
             THEN [req[q] EXCEPT !.alone = FALSE]
        ELSE req[q]]

\* updateTemplate up to BEGIN
StartUpdateTemplate(p, u, t, c) ==
    /\ pc[p] = Idle
    /\ SeqAvailable
    /\ LET racing == {q \in Procs \ {p} : /\ InProgress(q)
                                          /\ req[q].op = "updateTemplate"
                                          /\ req[q].username = u
                                          /\ req[q].templateType = t}
       IN  req' = Begun(p, [NoReq EXCEPT !.op = "updateTemplate", !.username = u,
                                         !.templateType = t, !.content = c,
                                         !.raced = (racing # {})], racing)
    /\ pc' = [pc EXCEPT ![p] = "upd_select"]
    /\ UNCHANGED <<prompt_templates, tplSeq, tx, resp>>
    /\ ConcFrame

\* resetToDefault up to BEGIN
StartResetToDefault(p, u, t) ==
    /\ pc[p] = Idle
    /\ SeqAvailable
    /\ req' = Begun(p, [NoReq EXCEPT !.op = "resetToDefault", !.username = u,
                                     !.templateType = t,
                                     !.content = DefaultContent(t)], {})
    /\ pc' = [pc EXCEPT ![p] = "rst_check"]
    /\ UNCHANGED <<prompt_templates, tplSeq, tx, resp>>
    /\ ConcFrame

\* restoreTemplate up to BEGIN
StartRestoreTemplate(p, u, t, v) ==
    /\ pc[p] = Idle
    /\ LET racing == {q \in Procs \ {p} : /\ InProgress(q)
                                          /\ req[q].op = "restoreTemplate"
                                          /\ req[q].username = u
                                          /\ req[q].templateType = t
                                          /\ req[q].version # v}
       IN  req' = Begun(p, [NoReq EXCEPT !.op = "restoreTemplate", !.username = u,
                                         !.templateType = t, !.version = v,
                                         !.raced = (racing # {}),
                                         !.alone = \A q \in Procs \ {p} :
                                                      InProgress(q) => q \in racing],
                        racing)
    /\ pc' = [pc EXCEPT ![p] = "rs_check"]
    /\ UNCHANGED <<prompt_templates, tplSeq, tx, resp>>
    /\ ConcFrame

\* deleteTemplate up to BEGIN
StartDeleteTemplate(p, u, t, v, all) ==
    /\ pc[p] = Idle
    /\ req' = Begun(p, [NoReq EXCEPT !.op = "deleteTemplate", !.username = u,
                                     !.templateType = t, !.version = v,
                                     !.deleteAll = all], {})
    /\ pc' = [pc EXCEPT ![p] = "del_delete"]
    /\ UNCHANGED <<prompt_templates, tplSeq, tx, resp>>
    /\ ConcFrame

\* SELECT COALESCE(MAX(version), 0) + 1 as next_version
SelectNextVersion(p) ==
    /\ pc[p] \in SelectLabels
    /\ req' = [req EXCEPT ![p].nextVersion =
                    NextVersion(View(p), req[p].username, req[p].templateType)]
    /\ pc' = [pc EXCEPT ![p] = IF pc[p] = "upd_select" THEN "upd_delete" ELSE "rst_deactivate"]
    /\ UNCHANGED <<prompt_templates, tplSeq, tx, resp>>
    /\ ConcFrame

\* resetToDefault: SELECT id, version ... ORDER BY version DESC LIMIT 1
ResetCheckExisting(p) ==
    /\ pc[p] = "rst_check"
    /\ IF OfPair(View(p), req[p].username, req[p].templateType) # {}
       THEN /\ pc' = [pc EXCEPT ![p] = "rst_select"]
            /\ UNCHANGED req
       ELSE /\ pc' = [pc EXCEPT ![p] = "rst_insert"]
            /\ req' = [req EXCEPT ![p].nextVersion = 1]
    /\ UNCHANGED <<prompt_templates, tplSeq, tx, resp>>
    /\ ConcFrame

\* restoreTemplate: SELECT id ... WHERE version = $3, ROLLBACK and 404 when there is none
RestoreCheck(p) ==
    /\ pc[p] = "rs_check"
    /\ IF Where(View(p), req[p].username, req[p].templateType, WVersion(req[p].version)) = {}
       THEN /\ pc' = [pc EXCEPT ![p] = Idle]
            /\ tx' = [tx EXCEPT ![p] = NoTx]
            /\ resp' = Resp(p, 404, 0, 0)
            /\ req' = [req EXCEPT ![p] = NoReq]
       ELSE /\ pc' = [pc EXCEPT ![p] = "rs_deactivate"]
            /\ UNCHANGED <<tx, resp, req>>
    /\ UNCHANGED <<prompt_templates, tplSeq>>
    /\ ConcFrame

\* the statement of p processes rows, which ends it
Finish(p, rows) ==
    /\ tx' = [tx EXCEPT ![p] = [ApplyTo(@, rows, StmtAt(p).kind)
                                   EXCEPT !.todo = {}, !.blocked = FALSE]]
    /\ req' = [req EXCEPT ![p].count = @ + Cardinality(rows)]
    /\ pc' = [pc EXCEPT ![p] = StmtAt(p).next]
    /\ UNCHANGED <<prompt_templates, resp>>

\* the statement of p processes rows and waits for the rows in rest
Block(p, rows, rest) ==
    /\ tx' = [tx EXCEPT ![p] = [ApplyTo(@, rows, StmtAt(p).kind)
                                   EXCEPT !.todo = IdsOf(rest), !.blocked = TRUE]]
    /\ req' = [req EXCEPT ![p].count = @ + Cardinality(rows)]
    /\ UNCHANGED <<prompt_templates, pc, resp>>

\* an UPDATE or DELETE statement starts: it selects its rows in what it sees; rows that
\* another transaction has modified make it wait, after any part of the other rows
WriteStatement(p) ==
    /\ pc[p] \in WriteLabels
    /\ ~tx[p].blocked
    /\ LET st      == StmtAt(p)
           targets == Where(View(p), req[p].username, req[p].templateType, st.w)
           locked  == {r \in targets : LockedByOther(p, r.id)}
       IN  IF st.kind = "activate"
           THEN IF locked # {} THEN Block(p, {}, targets)
                ELSE IF IndexCollision(p, Activated(targets)) THEN Raise(p, "23505")
                ELSE IF IndexWaitsFor(p, Activated(targets)) # {} THEN Block(p, {}, targets)
                ELSE Finish(p, targets)
           ELSE IF locked = {} THEN Finish(p, targets)
                ELSE \E S \in SUBSET (targets \ locked) : Block(p, S, targets \ S)
    /\ UNCHANGED tplSeq
    /\ ConcFrame

\* a waiting statement goes on when the transactions it waited for have ended: it
\* re-evaluates its WHERE clause on the current version of the rows it had selected
ResumeStatement(p) ==
    /\ pc[p] \in WriteLabels
    /\ tx[p].blocked
    /\ \A id \in tx[p].todo : ~LockedByOther(p, id)
    /\ IF StmtAt(p).kind = "activate"
       THEN IF IndexCollision(p, Activated(Pending(p))) THEN Raise(p, "23505")
            ELSE /\ IndexWaitsFor(p, Activated(Pending(p))) = {}
                 /\ Finish(p, Pending(p))
       ELSE Finish(p, Pending(p))
    /\ UNCHANGED tplSeq
    /\ ConcFrame

\* INSERT INTO prompt_templates ... RETURNING id, version, created_at
InsertStatement(p) ==
    /\ pc[p] \in InsertLabels
    /\ tplSeq' = tplSeq + 1
    /\ IF IndexCollision(p, {NewRow(p)}) THEN Raise(p, "23505")
       ELSE /\ IndexWaitsFor(p, {NewRow(p)}) = {}
            /\ tx' = [tx EXCEPT ![p].writes = @ \cup {NewRow(p)}]
            /\ pc' = [pc EXCEPT ![p] = IF pc[p] = "upd_insert" THEN "upd_commit"
                                       ELSE "rst_commit"]
            /\ UNCHANGED <<prompt_templates, req, resp>>
    /\ ConcFrame

\* COMMIT and the success response; deleteTemplate with rowCount 0: ROLLBACK and 404
Commit(p) ==
    /\ pc[p] \in CommitLabels
    /\ IF pc[p] = "del_commit" /\ req[p].count = 0
       THEN /\ resp' = Resp(p, 404, 0, 0)
            /\ UNCHANGED prompt_templates
       ELSE /\ prompt_templates' = View(p)
            /\ resp' =
                 CASE pc[p] = "upd_commit" -> Resp(p, 201, req[p].nextVersion, 0)
                   [] pc[p] = "rst_commit" -> Resp(p, 200, req[p].nextVersion, 0)
                   [] pc[p] = "rs_commit"  -> Resp(p, 200, req[p].version, 0)
                   [] pc[p] = "del_commit" -> Resp(p, 200, req[p].version, req[p].count)
    /\ tx' = [tx EXCEPT ![p] = NoTx]
    /\ pc' = [pc EXCEPT ![p] = Idle]
    /\ req' = [req EXCEPT ![p] = NoReq]
    /\ UNCHANGED tplSeq
    /\ ConcFrame

\* deadlock detection ends the statement of one of two transactions that wait for each other
DeadlockAbort(p) ==
    /\ \E q \in WaitsFor(p) : p \in WaitsFor(q)
    /\ Raise(p, "40P01")
    /\ UNCHANGED tplSeq
    /\ ConcFrame

ConcDeleteModes == {<<0, FALSE>>, <<0, TRUE>>, <<1, FALSE>>}
ConcRestoreVersions == {1, 2}

ConcNext ==
    \E p \in Procs :
        \/ \E k \in ConcPairs, c \in Contents : StartUpdateTemplate(p, k[1], k[2], c)
        \/ \E k \in ConcPairs : StartResetToDefault(p, k[1], k[2])
        \/ \E k \in ConcPairs, v \in ConcRestoreVersions : StartRestoreTemplate(p, k[1], k[2], v)
        \/ \E k \in ConcPairs, m \in ConcDeleteModes : StartDeleteTemplate(p, k[1], k[2], m[1], m[2])
        \/ SelectNextVersion(p)
        \/ ResetCheckExisting(p)
        \/ RestoreCheck(p)
        \/ WriteStatement(p)
        \/ ResumeStatement(p)
        \/ InsertStatement(p)
        \/ Commit(p)
        \/ DeadlockAbort(p)

ConcSpec == Init /\ [][ConcNext]_vars

(***************************************************************************)
(* CountsSpec: getChatCounts query by query (each pool.query is a          *)
(* statement of its own, outside any transaction), between the committed   *)
(* writes of well-formed chat requests                                     *)
(***************************************************************************)
\* const statuses = ['stopped', 'paused', 'completed', 'incomplete', 'archived']
statuses == <<"stopped", "paused", "completed", "incomplete", "archived">>

CountsFrame == UNCHANGED <<tplVars, chat, chatSeq, now, lifecycle, pc, req, tx, resp, conn>>

\* the request arrives with a user_id
CountsStart(p, user_id) ==
    /\ chatTx[p].pc = Idle
    /\ user_id # ""
    /\ chatTx' = [chatTx EXCEPT ![p] = [NoChatTx EXCEPT !.op = "getChatCounts",
                                                       !.pc = "cnt_query",
                                                       !.user_id = user_id]]
    /\ UNCHANGED chatRes
    /\ CountsFrame

\* one iteration of for (const status of statuses): counts[status] = COUNT(*)
CountsQuery(p) ==
    /\ chatTx[p].pc = "cnt_query"
    /\ chatTx[p].k < Len(statuses)
    /\ LET st == statuses[chatTx[p].k + 1]
       IN  chatTx' = [chatTx EXCEPT ![p].k = @ + 1,
                                    ![p].counts[st] = CountStatus(chat, chatTx[p].user_id, st)]
    /\ UNCHANGED chatRes
    /\ CountsFrame

\* counts.active, the query of counts.total, and the response
CountsTotal(p) ==
    /\ chatTx[p].pc = "cnt_query"
    /\ chatTx[p].k = Len(statuses)
    /\ LET c      == chatTx[p].counts
           active == c["paused"] + c["stopped"] + c["incomplete"]
           total  == CountUser(chat, chatTx[p].user_id)
       IN  chatRes' = [ChatRes("getChatCounts", 200, 0, chatTx[p].user_id, "", FALSE) EXCEPT
                          !.counts = [c EXCEPT !["active"] = active, !["total"] = total]]
    /\ chatTx' = [chatTx EXCEPT ![p] = [NoChatTx EXCEPT !.answer = 200]]
    /\ CountsFrame

CountsNext ==
    \/ \E st \in {"paused", "completed"} : createChat("u1", ConvCreate, st)
    \/ \E id \in ChatIds : updateConversation(id, ConvUpdate, "completed")
    \/ CountsStart(1, "u1")
    \/ CountsQuery(1)
    \/ CountsTotal(1)

CountsSpec == Init /\ [][CountsNext]_vars

(***************************************************************************)
(* ChatConcSpec: two concurrent updateConversation requests, interleaved   *)
(* statement by statement under PostgreSQL READ COMMITTED. Sessions are    *)
(* created while no update is in progress. An UPDATE locks the rows it     *)
(* changes until COMMIT or ROLLBACK, waits for a row another transaction   *)
(* has locked, and evaluates its WHERE again on the committed row after    *)
(* the wait.                                                               *)
(***************************************************************************)
ChatConcFrame == UNCHANGED <<tplVars, chatSeq, chatRes, lifecycle, pc, req, tx, resp, conn>>

ChatInProgress(p) == chatTx[p].pc # Idle

\* the rows the transaction of p has locked
ChatLocked(p) == IdsOf(chatTx[p].writes)

ChatLockedByOther(p, id) == \E q \in Procs \ {p} : id \in ChatLocked(q)

\* the request of p has ended with HTTP status s and database error code c
Answered(p, s, c) ==
    [NoChatTx EXCEPT !.op = chatTx[p].op, !.answer = s, !.code = c,
                     !.peers = chatTx[p].peers, !.scenario = chatTx[p].scenario]

\* the requests of p and q set two different live sessions of one user to completed
\* or stopped
TwoLiveSessions(id1, st1, id2, st2) ==
    /\ IsTerminalRequest(st1) /\ IsTerminalRequest(st2)
    /\ id1 # id2
    /\ \E a, b \in chat : /\ a.id = id1 /\ b.id = id2
                          /\ a.user_id = b.user_id
                          /\ a.status \in LiveStatuses /\ b.status \in LiveStatuses

\* updateConversation up to BEGIN
StartUpdateConversation(p, chat_id, status) ==
    /\ chatTx[p].pc = Idle
    /\ now <= MaxTime + MaxConcUpdates
    /\ now' = now + 1
    /\ LET finalStatus == finalStatusOf(status)
           others == {q \in Procs \ {p} : ChatInProgress(q)}
           pair(q) == TwoLiveSessions(chat_id, finalStatus,
                                      chatTx[q].chat_id, chatTx[q].status)
       IN  chatTx' = [q \in Procs |->
                        IF q = p
                        THEN [NoChatTx EXCEPT !.op = "updateConversation",
                                              !.pc = "uc_check",
                                              !.chat_id = chat_id,
                                              !.status = finalStatus,
                                              !.ts = now,
                                              !.peers = Cardinality(others),
                                              !.scenario = \E o \in others : pair(o)]
                        ELSE IF q \in others
                        THEN [chatTx[q] EXCEPT !.peers = IF @ = 0 THEN 1 ELSE 2,
                                               !.scenario = pair(q)]
                        ELSE chatTx[q]]
    /\ UNCHANGED chat
    /\ ChatConcFrame

\* SELECT id, user_id, status FROM chat WHERE id = $1; ROLLBACK and 404 when there is none
UpdateCheck(p) ==
    /\ chatTx[p].pc = "uc_check"
    /\ LET found == {r \in chat : r.id = chatTx[p].chat_id}
       IN  IF found = {}
           THEN chatTx' = [chatTx EXCEPT ![p] = Answered(p, 404, "")]
           ELSE LET existingChat == CHOOSE r \in found : TRUE
                IN  chatTx' = [chatTx EXCEPT
                                  ![p].user_id = existingChat.user_id,
                                  ![p].pc = IF IsTerminalRequest(chatTx[p].status)
                                            THEN "uc_archive" ELSE "uc_update"]
    /\ UNCHANGED <<chat, now>>
    /\ ChatConcFrame

\* the archiving UPDATE starts: the rows of its snapshot that satisfy its WHERE
ArchiveBegin(p) ==
    /\ chatTx[p].pc = "uc_archive"
    /\ LET rows == {r \in chat :
                       ArchiveOthers({r}, chatTx[p].user_id, chatTx[p].chat_id, chatTx[p].ts) # {r}}
       IN  chatTx' = [chatTx EXCEPT ![p].todo = IdsOf(rows),
                                    ![p].pc = IF rows = {} THEN "uc_update"
                                              ELSE "uc_archive_rows"]
    /\ UNCHANGED <<chat, now>>
    /\ ChatConcFrame

\* the archiving UPDATE reaches row id: it waits when another transaction has locked
\* the row, and otherwise archives the committed row if that still satisfies the WHERE
ArchiveRow(p, id) ==
    /\ chatTx[p].pc = "uc_archive_rows"
    /\ id \in chatTx[p].todo
    /\ chatTx[p].wait \in {0, id}
    /\ IF ChatLockedByOther(p, id)
       THEN /\ chatTx[p].wait = 0
            /\ chatTx' = [chatTx EXCEPT ![p].wait = id]
       ELSE LET row  == {r \in chat : r.id = id}
                new  == ArchiveOthers(row, chatTx[p].user_id, chatTx[p].chat_id, chatTx[p].ts)
                todo == chatTx[p].todo \ {id}
            IN  chatTx' = [chatTx EXCEPT
                              ![p].writes = @ \cup (new \ row),
                              ![p].todo = todo,
                              ![p].wait = 0,
                              ![p].pc = IF todo = {} THEN "uc_update" ELSE @]
    /\ UNCHANGED <<chat, now>>
    /\ ChatConcFrame

\* UPDATE chat SET conversation, status, updated_at WHERE id = $3
UpdateRow(p) ==
    /\ chatTx[p].pc = "uc_update"
    /\ IF ChatLockedByOther(p, chatTx[p].chat_id)
       THEN /\ chatTx[p].wait = 0
            /\ chatTx' = [chatTx EXCEPT ![p].wait = chatTx[p].chat_id]
       ELSE LET row == {r \in chat : r.id = chatTx[p].chat_id}
                new == UpdateChat(row, chatTx[p].chat_id, ConvUpdate, chatTx[p].status, chatTx[p].ts)
            IN  chatTx' = [chatTx EXCEPT ![p].writes = @ \cup new,
                                         ![p].wait = 0,
                                         ![p].pc = "uc_commit"]
    /\ UNCHANGED <<chat, now>>
    /\ ChatConcFrame

\* COMMIT and res.json
UpdateCommit(p) ==
    /\ chatTx[p].pc = "uc_commit"
    /\ chat' = {r \in chat : r.id \notin ChatLocked(p)} \cup chatTx[p].writes
    /\ chatTx' = [chatTx EXCEPT ![p] = Answered(p, 200, "")]
    /\ UNCHANGED now
    /\ ChatConcFrame

\* the transactions p is waiting for
ChatWaitsFor(p) ==
    IF chatTx[p].wait = 0 THEN {}
    ELSE {q \in Procs \ {p} : chatTx[p].wait \in ChatLocked(q)}

\* the deadlock detector aborts a transaction of a cycle of waiting transactions with
\* 40P01; catch (transactionError): ROLLBACK, then 500
ChatDeadlock(p) ==
    /\ \E q \in ChatWaitsFor(p) : p \in ChatWaitsFor(q)
    /\ chatTx' = [chatTx EXCEPT ![p] = Answered(p, 500, "40P01")]
    /\ UNCHANGED <<chat, now>>
    /\ ChatConcFrame

\* createChat while no update is in progress
CreateBetween(user_id, status) ==
    /\ \A p \in Procs : ~ChatInProgress(p)
    /\ createChat(user_id, ConvCreate, status)

ChatConcNext ==
    \/ CreateBetween("u1", "incomplete")
    \/ \E p \in Procs, id \in ChatIds, st \in {"completed", "stopped"} :
            StartUpdateConversation(p, id, st)
    \/ \E p \in Procs : UpdateCheck(p)
    \/ \E p \in Procs : ArchiveBegin(p)
    \/ \E p \in Procs, id \in ChatIds : ArchiveRow(p, id)
    \/ \E p \in Procs : UpdateRow(p)
    \/ \E p \in Procs : UpdateCommit(p)
    \/ \E p \in Procs : ChatDeadlock(p)

ChatConcSpec == Init /\ [][ChatConcNext]_vars

(***************************************************************************)
(* Properties of the chat handlers (ChatSpec)                              *)
(***************************************************************************)
LiveOf(C, u) == {r \in C : r.user_id = u /\ r.status \in LiveStatuses}
ChatIdsOf(C) == {r.id : r \in C}

\* C2: in every state reached by create and update requests, each userId has at most
\* one stored session whose status is incomplete, paused or stopped.
C2_SingleLiveSession == \A u \in Users : Cardinality(LiveOf(chat, u)) <= 1

CreatedTerminal(r) ==
    r.op = "createChat" /\ r.status = 201 /\ r.chatStatus \in {"completed", "stopped"}

\* C9: a create whose resulting status is completed or stopped archives every session of
\* that user that was incomplete, paused or stopped, inserts the new session, and leaves
\* the new session as the only one of that user that can be live.
C9_CreateArchivesLive ==
    [][CreatedTerminal(chatRes') =>
        LET u == chatRes'.user_id  id == chatRes'.id
        IN  /\ \A r \in LiveOf(chat, u) :
                  \E r2 \in chat' : /\ r2.id = r.id
                                    /\ r2 = [r EXCEPT !.status = "archived", !.updated_at = now]
            /\ id \notin ChatIdsOf(chat)
            /\ \E r \in chat' : r.id = id /\ r.user_id = u /\ r.status = chatRes'.chatStatus
            /\ \A r \in LiveOf(chat', u) : r.id = id
            /\ ChatIdsOf(chat') = ChatIdsOf(chat) \cup {id}]_vars

\* reached: a create with status completed or stopped that archived two sessions of the user
C9_Witness ==
    /\ CreatedTerminal(chatRes)
    /\ \E r \in chat : r.id = chatRes.id /\
          Cardinality({a \in chat : /\ a.user_id = chatRes.user_id
                                    /\ a.status = "archived"
                                    /\ a.updated_at = r.updated_at}) = 2

UpdatedTerminal(r) ==
    r.op = "updateConversation" /\ r.status = 200 /\ r.chatStatus \in {"completed", "stopped"}

\* C10: an update of session S to completed or stopped archives every other session of
\* S's user that was incomplete, paused or stopped, does not archive S, and leaves S with
\* the requested status and the conversation of the request.
C10_UpdateArchivesOthers ==
    [][UpdatedTerminal(chatRes') =>
        LET u == chatRes'.user_id  id == chatRes'.id
        IN  /\ \A r \in LiveOf(chat, u) : r.id # id =>
                  \E r2 \in chat' : /\ r2.id = r.id
                                    /\ r2 = [r EXCEPT !.status = "archived", !.updated_at = now]
            /\ \E r \in chat' : /\ r.id = id
                                /\ r.user_id = u
                                /\ r.status = chatRes'.chatStatus
                                /\ r.status # "archived"
                                /\ r.conversation = chatRes'.reqConversation
            /\ \E r \in chat : r.id = id /\ r.user_id = u
            /\ ChatIdsOf(chat') = ChatIdsOf(chat)]_vars

\* reached: an update to completed or stopped that archived another session of the user
\* and stored a conversation different from the one created
C10_Witness ==
    /\ UpdatedTerminal(chatRes)
    /\ \E r \in chat : /\ r.id = chatRes.id
                       /\ r.conversation = ConvUpdate
                       /\ \E a \in chat : /\ a.id # r.id
                                          /\ a.user_id = r.user_id
                                          /\ a.status = "archived"
                                          /\ a.updated_at = r.updated_at

SessionsOf(C, u) == {r \in C : r.user_id = u}

StatusAnswered(r) == r.op = "getSessionStatus" /\ r.status = 200

\* C11: for a user whose first session was created with status incomplete, getSessionStatus
\* answers resume with hasActiveSession true; once that session has been updated to
\* completed, it answers fresh with hasActiveSession false and the stored status of the
\* session is completed, not archived.
C11_CreateThenComplete ==
    StatusAnswered(chatRes) =>
        LET u == chatRes.user_id
        IN  /\ lifecycle[u] = "created" =>
                  /\ chatRes.sessionType = "resume"
                  /\ chatRes.hasActiveSession
                  /\ SessionsOf(chat, u) = {chatRes.chat}
            /\ lifecycle[u] = "completed" =>
                  /\ chatRes.sessionType = "fresh"
                  /\ ~chatRes.hasActiveSession
                  /\ Cardinality(SessionsOf(chat, u)) = 1
                  /\ \A r \in SessionsOf(chat, u) : r.status = "completed"

\* reached: getSessionStatus answered for a user whose only session was created incomplete
\* and then updated to completed with a new conversation
C11_Witness ==
    /\ StatusAnswered(chatRes)
    /\ lifecycle[chatRes.user_id] = "completed"
    /\ chatRes.sessionType = "fresh"
    /\ \E r \in SessionsOf(chat, chatRes.user_id) : r.conversation = ConvUpdate

\* C12: getSessionStatus answers resume with hasActiveSession true exactly when the user
\* has a stored session with status paused, stopped or incomplete, and the chat it returns
\* is the one of those updated last; otherwise it answers fresh with chat null, however
\* many completed or archived sessions the user has.
C12_ResumeIffLive ==
    StatusAnswered(chatRes) =>
        LET live == {r \in chat : /\ r.user_id = chatRes.user_id
                                  /\ r.status \in {"paused", "stopped", "incomplete"}}
        IN  IF live # {}
            THEN /\ chatRes.sessionType = "resume"
                 /\ chatRes.hasActiveSession
                 /\ chatRes.chat \in live
                 /\ \A r \in live : r.updated_at <= chatRes.chat.updated_at
            ELSE /\ chatRes.sessionType = "fresh"
                 /\ ~chatRes.hasActiveSession
                 /\ chatRes.chat = NoChat

\* reached: a resume answer chosen among two live sessions of a user who also has a
\* completed or archived session
C12_Witness ==
    /\ StatusAnswered(chatRes)
    /\ chatRes.sessionType = "resume"
    /\ Cardinality(LiveOf(chat, chatRes.user_id)) = 2
    /\ \E r \in SessionsOf(chat, chatRes.user_id) : r.status \in {"completed", "archived"}

\* C13: a stored session with status completed or archived never gets status incomplete,
\* paused or stopped by a later create or update request.
C13_TerminalStays ==
    [][\A r \in chat : r.status \in {"completed", "archived"} =>
          \A r2 \in chat' : r2.id = r.id => r2.status \notin {"incomplete", "paused", "stopped"}]_vars

(***************************************************************************)
(* Properties of the template handlers, one request at a time (Spec)       *)
(***************************************************************************)
ResPair == <<res.username, res.templateType>>
TplIdsOf(T) == {r.id : r \in T}

\* the rows a step has inserted: their ids were not yet drawn from the sequence
Inserted(T2) == {r \in T2 : r.id >= tplSeq}

\* C3: n successive successful upserts on one (owner, templateType) that had no rows,
\* with no other request on the pair in between, return the versions 1, 2, ..., n.
C3_UpsertVersionsCount ==
    (res.op = "updateTemplate" /\ res.status = 201 /\ upsertRun[ResPair] > 0)
        => res.version = upsertRun[ResPair]

\* reached: the third upsert of such a run
C3_Witness ==
    res.op = "updateTemplate" /\ res.status = 201 /\ upsertRun[ResPair] = 3

\* C6: a successful upsert flips the previously active row of the pair to inactive,
\* inserts one new active row, and leaves every other stored row present and unchanged.
C6_UpsertFrame ==
    [][(res'.op = "updateTemplate" /\ res'.status = 201) =>
        LET u == res'.username  t == res'.templateType
            prev == Where(prompt_templates, u, t, WActive)
        IN  \E c \in Contents :
              prompt_templates' =
                  (prompt_templates \ prev)
                  \cup {[r EXCEPT !.is_active = FALSE] : r \in prev}
                  \cup {TemplateRow(tplSeq, u, t, c, res'.version, TRUE)}]_vars

\* C7: without a delete request no stored row is ever removed: after upsert, restore,
\* resetToDefault and bulk reset requests every row inserted so far is still stored.
C7_HistoryPreserved ==
    [][res'.op # "deleteTemplate" =>
        TplIdsOf(prompt_templates) \subseteq TplIdsOf(prompt_templates')]_vars

\* C8 (as stated): the version a row-creating request assigns is greater than every
\* version assigned before for the pair, also when deletes happened in between.
C8_NeverReassigned ==
    [][\A r \in Inserted(prompt_templates') :
          r.version > lastAssigned[<<r.username, r.template_type>>]]_vars

\* C8 (amended): the version a row-creating request assigns is greater than the version
\* assigned by the previous row-creating request for the pair, provided no delete
\* request removed rows of the pair in between.
C8_IncreasingBetweenDeletes ==
    [][\A r \in Inserted(prompt_templates') :
          ~deletedSince[<<r.username, r.template_type>>]
              => r.version > lastAssigned[<<r.username, r.template_type>>]]_vars

\* reached: a row-creating request assigned version 3 to the row it stored, with no
\* delete of rows of the pair since the previous row-creating request
C8_Witness ==
    /\ res.op \in {"updateTemplate", "resetToDefault"}
    /\ res.status \in {200, 201}
    /\ res.version = 3
    /\ ~deletedSince[ResPair]
    /\ \E r \in OfPair(prompt_templates, res.username, res.templateType) :
          r.version = 3 /\ r.is_active

ActiveRows(T, u, t) == {r \in T : r.username = u /\ r.template_type = t /\ r.is_active}

Restored(r) == r.op = "restoreTemplate" /\ r.status = 200

\* C14: after a successful restore of version V the row with version V is active and is
\* the only active row of the pair; no row is created or removed, and no version, content
\* or row of another pair changes.
C14_RestoreFrame ==
    [][Restored(res') =>
        LET u == res'.username  t == res'.templateType  v == res'.reqVersion
        IN  /\ prompt_templates' =
                  {IF r.username = u /\ r.template_type = t
                      THEN [r EXCEPT !.is_active = (r.version = v)] ELSE r :
                   r \in prompt_templates}
            /\ Cardinality(prompt_templates') = Cardinality(prompt_templates)
            /\ Cardinality(ActiveRows(prompt_templates', u, t)) = 1
            /\ \A r \in ActiveRows(prompt_templates', u, t) : r.version = v]_vars

\* reached: a restore has made an older version active and the newer one inactive
C14_Witness ==
    /\ Restored(res)
    /\ \E a, b \in prompt_templates :
          /\ a.username = res.username /\ a.template_type = res.templateType
          /\ b.username = res.username /\ b.template_type = res.templateType
          /\ a.version = res.reqVersion /\ a.is_active
          /\ b.version > a.version /\ ~b.is_active

\* C15: a restore of a version that is not stored for the pair answers 404 and leaves
\* every stored row unchanged, the active row included.
C15_RestoreMissingVersion ==
    [][(res'.op = "restoreTemplate" /\ res'.username # "") =>
        LET missing == ~\E r \in prompt_templates : /\ r.username = res'.username
                                                     /\ r.template_type = res'.templateType
                                                     /\ r.version = res'.reqVersion
        IN  missing => res'.status = 404 /\ prompt_templates' = prompt_templates]_vars

\* reached: a restore of a missing version was refused while the pair has an active row
C15_Witness ==
    /\ res.op = "restoreTemplate" /\ res.status = 404
    /\ ActiveRows(prompt_templates, res.username, res.templateType) # {}
    /\ \A r \in prompt_templates :
          (r.username = res.username /\ r.template_type = res.templateType)
              => r.version # res.reqVersion

\* C16: a successful restore of version V that immediately repeats a successful restore
\* of V on the same pair leaves the stored rows exactly as the first one left them.
C16_RestoreIdempotent ==
    [][(Restored(res') /\ lastWrite'.op = "restoreTemplate" /\ lastWrite'.run = 2)
          => prompt_templates' = prompt_templates]_vars

\* reached: the same restore of an older version has committed twice in a row
C16_Witness ==
    /\ Restored(res)
    /\ lastWrite.op = "restoreTemplate" /\ lastWrite.run = 2
    /\ \E r \in prompt_templates :
          /\ r.username = res.username /\ r.template_type = res.templateType
          /\ r.version > res.reqVersion

DefaultReadAfterUpsert ==
    /\ res.op = "getTemplate" /\ res.username # ""
    /\ res.reqVersion = 0 /\ ~res.reqAll
    /\ lastWrite.op = "updateTemplate"
    /\ lastWrite.username = res.username
    /\ lastWrite.templateType = res.templateType

\* C17: the default read of a pair whose last committed request is an upsert returns the
\* content and the version of that upsert; when the pair had no rows before the upsert
\* the version is 1.
C17_UpsertReadRoundTrip ==
    DefaultReadAfterUpsert =>
        /\ res.status = 200
        /\ res.content = lastWrite.content
        /\ res.version = lastWrite.version
        /\ upsertRun[ResPair] = 1 => res.version = 1

\* reached: the default read after an upsert that replaced a row with another content
C17_Witness ==
    /\ DefaultReadAfterUpsert
    /\ res.status = 200
    /\ res.version = 2
    /\ \E r \in prompt_templates :
          /\ r.username = res.username /\ r.template_type = res.templateType
          /\ r.content # res.content

\* the rows a delete request selects: all versions, one version, or the active row
DeleteSelection(T, r) ==
    {x \in T : /\ x.username = r.username
               /\ x.template_type = r.templateType
               /\ IF r.reqAll THEN TRUE
                  ELSE IF r.reqVersion # 0 THEN x.version = r.reqVersion
                  ELSE x.is_active}

\* C18: a delete, in any of its three modes, that matches no row answers 404 and leaves
\* all stored rows intact.
C18_DeleteNoMatch ==
    [][(res'.op = "deleteTemplate" /\ res'.username # "") =>
        (DeleteSelection(prompt_templates, res') = {}
            => res'.status = 404 /\ prompt_templates' = prompt_templates)]_vars

\* reached: a delete of a version that is not stored was refused while the pair has rows
C18_Witness ==
    /\ res.op = "deleteTemplate" /\ res.status = 404
    /\ res.reqVersion # 0 /\ ~res.reqAll
    /\ \E r \in prompt_templates :
          r.username = res.username /\ r.template_type = res.templateType

\* C19: a successful delete removes exactly the rows of the pair selected by its mode,
\* answers with their number, and leaves every other row unchanged.
C19_DeleteFrame ==
    [][(res'.op = "deleteTemplate" /\ res'.status = 200) =>
        LET sel == DeleteSelection(prompt_templates, res')
        IN  /\ sel # {}
            /\ prompt_templates' = prompt_templates \ sel
            /\ res'.count = Cardinality(sel)]_vars

\* reached: a delete by version has removed an inactive row and left the active row of
\* the pair and a row of another owner stored
C19_Witness ==
    /\ res.op = "deleteTemplate" /\ res.status = 200
    /\ res.reqVersion # 0 /\ ~res.reqAll /\ res.count = 1
    /\ ActiveRows(prompt_templates, res.username, res.templateType) # {}
    /\ \E r \in prompt_templates : r.username # res.username

\* C20: a successful resetToDefault leaves the stored rows and answers the version that
\* an upsert of the default content would, started from the same stored rows.
C20_ResetIsUpsertOfDefault ==
    [][(res'.op = "resetToDefault" /\ res'.status = 200) =>
        LET r == UpsertTx(prompt_templates, tplSeq, res'.username, res'.templateType,
                          DefaultContent(res'.templateType))
        IN  /\ r.ok
            /\ prompt_templates' = r.rows
            /\ res'.version = r.version]_vars

BulkAnswered(r) == r.op = "updateAllUsers" /\ r.status = 200

\* C21: a bulk reset in which the update of exactly one owner is refused with a constraint
\* violation reports (number of owners - 1) successes and 1 failure, and every owner it
\* reports as successful then has a stored active defaultTemplateValues row with the
\* default content and the next version.
C21_BulkPartialFailure ==
    [][(BulkAnswered(res') /\ res'.failedOwner # "") =>
        /\ res'.count = res'.totalUsers - 1
        /\ res'.failed = 1
        /\ \A u \in res'.succeeded :
              \E r \in prompt_templates' :
                  /\ r.username = u /\ r.template_type = "defaultTemplateValues"
                  /\ r.is_active
                  /\ r.content = DefaultContent("defaultTemplateValues")
                  /\ r.version = NextVersion(prompt_templates, u, "defaultTemplateValues")]_vars

\* C22: after a bulk reset, an owner whose update failed has the stored rows it had
\* before the bulk reset.
C22_BulkFailedOwnerUnchanged ==
    [][BulkAnswered(res') =>
        \A u \in Users :
            (u \notin res'.succeeded) =>
                {r \in prompt_templates' : r.username = u}
                    = {r \in prompt_templates : r.username = u}]_vars

\* reached: a bulk reset has failed for an owner who has an active defaultTemplateValues
\* row, which the refused update had deactivated
C22_Witness ==
    /\ BulkAnswered(res)
    /\ res.failedOwner # ""
    /\ ActiveRows(prompt_templates, res.failedOwner, "defaultTemplateValues") # {}

(***************************************************************************)
(* Properties of concurrent template requests (ConcSpec)                   *)
(***************************************************************************)
ActiveOf(T, u, t) == {r \in OfPair(T, u, t) : r.is_active}

\* C1: in every state reached by upsert, restore and delete requests, each
\* (owner, templateType) has at most one stored row with isActive = true.
C1_SingleActive ==
    \A k \in Pairs : Cardinality(ActiveOf(prompt_templates, k[1], k[2])) <= 1

\* reached: a restore has committed and the pair has two stored rows, one of them active
C1_Witness ==
    \E k \in ConcPairs :
        /\ resp.op = "restoreTemplate" /\ resp.status = 200
        /\ Cardinality(OfPair(prompt_templates, k[1], k[2])) = 2
        /\ Cardinality(ActiveOf(prompt_templates, k[1], k[2])) = 1

UniqueVersions(T) ==
    \A r1, r2 \in T :
        (r1.username = r2.username /\ r1.template_type = r2.template_type
            /\ r1.version = r2.version) => r1.id = r2.id

\* C4: when an upsert that ran concurrently with another upsert of the same pair has
\* succeeded, the stored rows are those of a run of the two one after the other: no two
\* active rows and no two rows with the same version (otherwise it is refused with 409).
C4_RaceIsConflictOrSerial ==
    (resp.op = "updateTemplate" /\ resp.raced /\ resp.status = 201)
        => UniqueVersions(prompt_templates) /\ C1_SingleActive

\* C5: no two stored rows of a pair have the same version, and every inserted row has
\* version max(stored versions of the pair) + 1, or 1 when the pair has no rows, also
\* when requests interleave.
C5_VersionsUniqueMaxPlusOne ==
    [][/\ UniqueVersions(prompt_templates')
       /\ \A r \in prompt_templates' : r.id \notin IdsOf(prompt_templates) =>
             r.version = NextVersion(prompt_templates, r.username, r.template_type)]_vars

C24_UniqueViolationIs409 ==
    resp.code = "23505" => resp.status = 409

\* C30: prompt assembly answers with the owner's stored content and templateSource
\* database exactly when the owner has an active row of type promptType, and otherwise
\* with the static default content and templateSource file; it changes no stored row.
C30_PromptSource ==
    [][(res'.op = "processPrompt" /\ res'.username # "") =>
        LET active == ActiveRows(prompt_templates, res'.username, res'.templateType)
        IN  /\ prompt_templates' = prompt_templates
            /\ res'.status = 200
            /\ IF active # {}
               THEN /\ res'.templateSource = "database"
                    /\ res'.content \in {r.content : r \in active}
               ELSE /\ res'.templateSource = "file"
                    /\ res'.content = DefaultContent(res'.templateType)]_vars

\* the answer of a chat create or chat update that stored a row
ChatStored == /\ chatRes.op \in {"createChat", "updateConversation"}
              /\ chatRes.status \in {200, 201}

\* C25: chat create and chat update answer shouldStartFresh = true exactly when the
\* status they stored is completed or stopped (false for incomplete and paused).
C25_ShouldStartFresh ==
    ChatStored =>
        \E r \in chat :
            /\ r.id = chatRes.id
            /\ r.status \in validStatuses
            /\ chatRes.shouldStartFresh <=> r.status \in {"completed", "stopped"}

C25_Witness ==
    /\ ChatStored
    /\ chatRes.shouldStartFresh
    /\ \E r \in chat : r.id = chatRes.id /\ r.status = "stopped"

\* C26: chat create and chat update store only one of the four creatable statuses; a
\* request whose status is missing or outside {paused, completed, stopped, incomplete}
\* ('archived' included) stores incomplete and archives no session.
C26_InvalidStatusStoresIncomplete ==
    [][(chatRes'.op \in {"createChat", "updateConversation"} /\ chatRes'.status \in {200, 201}) =>
        \E r \in chat' :
            /\ r.id = chatRes'.id
            /\ r.status \in validStatuses
            /\ chatRes'.reqStatus \notin validStatuses =>
                  /\ r.status = "incomplete"
                  /\ {x \in chat' : x.id # r.id} = {x \in chat : x.id # r.id}]_vars

C26_Witness ==
    /\ ChatStored
    /\ chatRes.reqStatus = "archived"
    /\ \E r \in chat : r.id = chatRes.id /\ r.status = "incomplete"
    /\ \E x \in chat : x.id # chatRes.id /\ x.user_id = chatRes.user_id
                       /\ x.status \in LiveStatuses

\* C27: the counts answered for a user are the numbers of that user's stored sessions in
\* each of the five statuses, active is the number of the paused, stopped and incomplete
\* ones, and total the number of all sessions of the user.
C27_Counts ==
    (chatRes.op = "getChatCounts" /\ chatRes.status = 200) =>
        LET mine == {r \in chat : r.user_id = chatRes.user_id}
        IN  /\ \A st \in CountedStatuses :
                  chatRes.counts[st] = Cardinality({r \in mine : r.status = st})
            /\ chatRes.counts["active"] =
                  Cardinality({r \in mine : r.status \in {"paused", "stopped", "incomplete"}})
            /\ chatRes.counts["total"] = Cardinality(mine)

C27_Witness ==
    /\ chatRes.op = "getChatCounts" /\ chatRes.status = 200
    /\ chatRes.counts["archived"] >= 1
    /\ chatRes.counts["active"] >= 1
    /\ chatRes.counts["total"] >= 2
    /\ \E r \in chat : r.user_id # chatRes.user_id

\* the sessions the filter of a history request selects, stated on the stored rows
Selected(u, filter) ==
    {r \in chat : /\ r.user_id = u
                  /\ \/ filter = "all"
                     \/ filter = "active" /\ r.status \in {"paused", "stopped", "incomplete"}
                     \/ filter = r.status}

\* C28: a history answer holds only sessions of the user that the filter selects (all:
\* every session; active: paused, stopped or incomplete; a status: that status), it is
\* the page [offset, offset + limit) of the selected sessions ordered by updated_at
\* descending, and hasMore is true exactly when offset + limit < the number selected.
C28_History ==
    (chatRes.op = "getChatHistory" /\ chatRes.status = 200) =>
        LET F     == Selected(chatRes.user_id, chatRes.filter)
            chats == chatRes.chats
            n     == Cardinality(F)
            rest  == IF n > chatRes.offset THEN n - chatRes.offset ELSE 0
        IN  /\ \A i \in 1 .. Len(chats) : chats[i] \in F
            /\ \A i, j \in 1 .. Len(chats) :
                  i < j => chats[i] # chats[j] /\ chats[i].updated_at >= chats[j].updated_at
            /\ Len(chats) = IF rest < chatRes.limit THEN rest ELSE chatRes.limit
            /\ \A i \in 1 .. Len(chats) :
                  /\ Cardinality({r \in F : r.updated_at > chats[i].updated_at})
                        < chatRes.offset + i
                  /\ Cardinality({r \in F : r.updated_at >= chats[i].updated_at})
                        >= chatRes.offset + i
            /\ chatRes.total = n
            /\ chatRes.hasMore <=> (chatRes.offset + chatRes.limit < n)

C28_Witness ==
    /\ chatRes.op = "getChatHistory" /\ chatRes.status = 200
    /\ chatRes.filter = "active"
    /\ chatRes.hasMore
    /\ Len(chatRes.chats) = 1
    /\ \E r \in chat : r.user_id = chatRes.user_id /\ r.status = "completed"
    /\ \E r \in chat : r.user_id = chatRes.user_id /\ r.status \in {"paused", "stopped", "incomplete"}
                       /\ r.updated_at < chatRes.chats[1].updated_at

\* C29: deleting an existing session removes exactly its row and changes no other
\* session; delete, lookup and update of an absent session id answer 404 and leave the
\* stored sessions unchanged.
C29_DeleteOneRowOr404 ==
    [][(chatRes'.op \in {"deleteChat", "getChatById", "updateConversation"}
            /\ chatRes'.reqId # 0) =>
        LET present == {r \in chat : r.id = chatRes'.reqId}
        IN  /\ present = {} => chatRes'.status = 404 /\ chat' = chat
            /\ present # {} => chatRes'.status = 200
            /\ (present # {} /\ chatRes'.op = "deleteChat") => chat' = chat \ present
            /\ (present # {} /\ chatRes'.op = "getChatById") => chat' = chat]_vars

C29_Witness ==
    /\ chatRes.op = "deleteChat" /\ chatRes.status = 200
    /\ \A r \in chat : r.id # chatRes.id
    /\ \E r \in chat : r.user_id = chatRes.user_id /\ r.status = "archived"
    /\ \E r \in chat : r.user_id = chatRes.user_id /\ r.status \in LiveStatuses

C29_WitnessAbsent ==
    /\ chatRes.op \in {"deleteChat", "getChatById", "updateConversation"}
    /\ chatRes.status = 404
    /\ chat # {}

\* C31: no storage failure is swallowed; in particular a prompt assembly whose template
\* query or variables query fails answers with an error, not as if the row were absent.
C31_QueryErrorReported ==
    [][(res'.op = "processPrompt" /\ res'.dbError # "none") => res'.status >= 500]_vars

\* C32: on every exit path the connection a request acquired is released exactly once,
\* after its transaction has been ended by COMMIT or by an attempted ROLLBACK, and a
\* request that has returned holds no connection.
C32_ReleasedOnceAfterTxEnd ==
    /\ conn.releases <= conn.connects
    /\ conn.connects <= 1
    /\ conn.releases = 1 => conn.tx # "open" /\ ~conn.client
    /\ conn.phase = "returned" => ~conn.client /\ conn.releases = conn.connects

C32_Witness ==
    /\ conn.phase = "returned"
    /\ conn.releases = 1
    /\ conn.tx = "rollbackAttempted"
    /\ conn.status = 500

\* a template request, or a chat request, was refused before any storage access
RejectedTemplate ==
    /\ res'.status = 400
    /\ ~res'.storageUsed
    /\ prompt_templates' = prompt_templates
    /\ tplSeq' = tplSeq

RejectedChat ==
    /\ chatRes'.status = 400
    /\ ~chatRes'.storageUsed
    /\ chat' = chat
    /\ chatSeq' = chatSeq
    /\ now' = now

C34_FreshAfterShouldStartFresh ==
    [][(/\ chatRes.op \in {"createChat", "updateConversation"}
        /\ chatRes.status \in {200, 201}
        /\ chatRes.shouldStartFresh
        /\ chatRes'.op = "getSessionStatus"
        /\ chatRes'.status = 200
        /\ chatRes'.user_id = chatRes.user_id) => chatRes'.sessionType = "fresh"]_vars

\* the sessions that a step turns into archived ones
NewlyArchived ==
    {r \in chat' : /\ r.status = "archived"
                   /\ \A x \in chat : x.id = r.id => x.status # "archived"}

\* C36: a session becomes archived only as the side effect of a create or update of
\* another session of the same user with status completed or stopped; no create or
\* update archives its own target.
C36_ArchivedOnlyAsSideEffect ==
    [][\A r \in NewlyArchived :
          /\ chatRes'.op \in {"createChat", "updateConversation"}
          /\ chatRes'.status \in {200, 201}
          /\ chatRes'.chatStatus \in {"completed", "stopped"}
          /\ chatRes'.id # r.id
          /\ chatRes'.user_id = r.user_id
          /\ \E x \in chat : x.id = r.id /\ x.status \in LiveStatuses]_vars

C36_Witness ==
    /\ ChatStored
    /\ chatRes.op = "updateConversation"
    /\ chatRes.chatStatus = "stopped"
    /\ \E r \in chat : /\ r.status = "archived"
                       /\ r.user_id = chatRes.user_id
                       /\ r.updated_at = now - 1

\* C37: chat create and chat update never change a session of another user; when the
\* stored status is incomplete or paused they change no row but the inserted or the
\* targeted one; update never changes the user of its target.
C37_ChatFrame ==
    [][(chatRes'.op \in {"createChat", "updateConversation"} /\ chatRes'.status \in {200, 201}) =>
          LET u == chatRes'.user_id
              id == chatRes'.id
          IN  /\ {r \in chat' : r.user_id # u} = {r \in chat : r.user_id # u}
              /\ chatRes'.chatStatus \in {"incomplete", "paused"} =>
                    {r \in chat' : r.id # id} = {r \in chat : r.id # id}
              /\ \A x \in chat : x.id = id =>
                    \E r \in chat' : r.id = id /\ r.user_id = x.user_id]_vars

C37_Witness ==
    /\ ChatStored
    /\ chatRes.op = "createChat"
    /\ chatRes.chatStatus = "paused"
    /\ \E r \in chat : r.user_id = chatRes.user_id /\ r.id # chatRes.id
                       /\ r.status \in LiveStatuses
    /\ \E r \in chat : r.user_id # chatRes.user_id

\* the active version of (u, t) has been deleted and nothing has been activated since
ActiveDeleted(u, t) ==
    /\ <<u, t>> \in Pairs
    /\ deletedSince[<<u, t>>]
    /\ ActiveRows(prompt_templates, u, t) = {}

\* C39: a delete that removes the active version of a pair leaves the pair without an
\* active row and promotes no remaining version; until a later upsert, reset or restore
\* the default read answers 404 and prompt assembly uses the static default.
C39_DeleteActiveLeavesNone ==
    [][/\ (/\ res'.op = "deleteTemplate" /\ res'.status = 200
           /\ \E r \in prompt_templates \ prompt_templates' :
                 r.is_active /\ r.username = res'.username
                             /\ r.template_type = res'.templateType) =>
              /\ ActiveRows(prompt_templates', res'.username, res'.templateType) = {}
              /\ prompt_templates' \subseteq prompt_templates
       /\ (/\ res'.op = "getTemplate" /\ res'.reqVersion = 0 /\ ~res'.reqAll
           /\ ActiveDeleted(res'.username, res'.templateType)) => res'.status = 404
       /\ (/\ res'.op = "processPrompt" /\ res'.dbError = "none"
           /\ ActiveDeleted(res'.username, res'.templateType)) =>
              /\ res'.status = 200
              /\ res'.templateSource = "file"
              /\ res'.content = DefaultContent(res'.templateType)]_vars

\* both of two restores of different versions of a pair that ran concurrently, and
\* overlapped with no other kind of request, have been answered, neither with 404, and
\* no request is in progress
RestoresRaced ==
    /\ resp.op = "restoreTemplate" /\ resp.raced
    /\ resp.peer.status # 0
    /\ resp.status # 404 /\ resp.peer.status # 404
    /\ \A p \in Procs : pc[p] = Idle

\* C40: after two concurrent restores of different existing versions of a pair, the pair
\* has exactly one active row, and it is the target of a restore that answered success.
C40_ConcurrentRestores ==
    RestoresRaced =>
        \A k \in ConcPairs :
            LET A == ActiveOf(prompt_templates, k[1], k[2])
            IN  /\ Cardinality(A) = 1
                /\ \E r \in A :
                      \/ resp.status = 200 /\ r.version = resp.version
                      \/ resp.peer.status = 200 /\ r.version = resp.peer.version

C40_Witness ==
    /\ RestoresRaced
    /\ resp.status = 500 /\ resp.code = "23505"
    /\ resp.peer.status = 200


\* C38: the counts returned by one getChatCounts call are mutually consistent also when
\* other requests commit between its queries: total equals stopped + paused + completed
\* + incomplete + archived, and active equals paused + stopped + incomplete.
C38_CountsConsistent ==
    (chatRes.op = "getChatCounts" /\ chatRes.status = 200) =>
        LET c == chatRes.counts
        IN  /\ c["total"] = c["stopped"] + c["paused"] + c["completed"]
                              + c["incomplete"] + c["archived"]
            /\ c["active"] = c["paused"] + c["stopped"] + c["incomplete"]

\* both of two updates that ran concurrently, and overlapped with no other request, and
\* that set two different live sessions of one user to completed or stopped, have been
\* answered
UpdatesRaced ==
    \A p \in Procs : /\ ~ChatInProgress(p)
                      /\ chatTx[p].op = "updateConversation"
                      /\ chatTx[p].answer # 0
                      /\ chatTx[p].peers = 1
                      /\ chatTx[p].scenario

\* C35: when two chat updates that set two different live sessions A and B of the same
\* user to completed or stopped run concurrently with interleaved statements, both
\* terminate without a deadlock between the archive statement of one and the row update
\* of the other, and the resulting state has at most one live session for that user.
C35_ConcurrentUpdates ==
    [][(~UpdatesRaced /\ UpdatesRaced') =>
          /\ \A p \in Procs : chatTx'[p].code # "40P01"
          /\ \A u \in Users : Cardinality(LiveOf(chat', u)) <= 1]_vars
====
